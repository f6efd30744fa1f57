-------------------------------- MODULE LspHost --------------------------------
(***************************************************************************)
(* The loopback server of the language tools (mcp/lsp/libServerHost.ts)    *)
(* and its registration with the agent's backend, which hands its address  *)
(* and bearer token to every session it opens (extension.ts).              *)
(*                                                                         *)
(* The server binds once, when the workspace is trusted, and may bind the  *)
(* same port once more after an error of its listener.  Another process    *)
(* may take the port in between, and is sent the token by who still has    *)
(* the advertisement.  The requests are module LspTools.                   *)
(***************************************************************************)
EXTENDS Integers

VARIABLES bound,           \* where the listener is: see Binds
          rebindAttempted,
          permanentlyDown,
          hostGone,        \* disposed
          advertised,      \* cachedAdvertisement
          registeredServer,\* the backend has the advertisement
          backendKind,     \* of the current backend; a mock takes no registration
          hostStarted      \* the zone of the server was started

lspHostVars == <<bound, rebindAttempted, permanentlyDown, hostGone, advertised,
                 registeredServer, backendKind, hostStarted>>

\* "closing" and "listen" are the two halves of the rebind.
Binds == {"none", "binding", "serving", "closing", "listen"}

LspHostTypeOK ==
  /\ bound \in Binds /\ backendKind \in {"mock", "acp"}
  /\ {rebindAttempted, permanentlyDown, hostGone, advertised, registeredServer,
      hostStarted} \subseteq BOOLEAN

LspHostInit ==
  /\ bound = "none" /\ rebindAttempted = FALSE /\ permanentlyDown = FALSE
  /\ hostGone = FALSE /\ advertised = FALSE /\ registeredServer = FALSE
  /\ backendKind \in {"mock", "acp"} /\ hostStarted = FALSE

\* The activation in a trusted workspace, or the grant of trust, which puts the
\* agent in the place of the mock before; once.
StartHost ==
  /\ ~ hostStarted /\ hostStarted' = TRUE
  /\ backendKind' \in {backendKind, "acp"}
  /\ bound' = IF hostGone THEN bound ELSE "binding"
  /\ UNCHANGED <<rebindAttempted, permanentlyDown, hostGone, advertised, registeredServer>>

\* Mutant: a dispose during the bind is forgotten.
BoundAnyway ==
  /\ bound = "binding"
  /\ bound' = "serving" /\ advertised' = TRUE
  /\ registeredServer' = (backendKind = "acp")
  /\ UNCHANGED <<rebindAttempted, permanentlyDown, hostGone, backendKind, hostStarted>>

\* doStart goes on, and what awaits it registers the advertisement.
Bound ==
  /\ bound = "binding"
  /\ IF hostGone THEN bound' = "none" /\ UNCHANGED <<advertised, registeredServer>>
     ELSE /\ bound' = "serving" /\ advertised' = TRUE
          /\ registeredServer' = (backendKind = "acp")
  /\ UNCHANGED <<rebindAttempted, permanentlyDown, hostGone, backendKind, hostStarted>>

\* No port, or not one of the loopback: start() rejects and nothing is registered.
BindFails ==
  /\ bound = "binding" /\ bound' = "none"
  /\ UNCHANGED <<rebindAttempted, permanentlyDown, hostGone, advertised,
                 registeredServer, backendKind, hostStarted>>

\* 'error' of the listener, which may still be serving: the first one closes it
\* and listens again on the port, a second one burns the token.
ListenerError ==
  /\ bound \in {"serving", "closing", "listen"} /\ ~ hostGone /\ ~ permanentlyDown
  /\ IF rebindAttempted
     THEN /\ permanentlyDown' = TRUE /\ advertised' = FALSE /\ registeredServer' = FALSE
          /\ bound' = IF bound = "listen" THEN "none" ELSE bound
          /\ UNCHANGED rebindAttempted
     ELSE /\ rebindAttempted' = TRUE /\ bound' = "closing"
          /\ UNCHANGED <<permanentlyDown, advertised, registeredServer>>
  /\ UNCHANGED <<hostGone, backendKind, hostStarted>>

\* The old listener is closed.  It is not asked whether the host is down.
ListenerClosed ==
  /\ bound = "closing"
  /\ bound' = IF hostGone THEN "none" ELSE "listen"
  /\ UNCHANGED <<rebindAttempted, permanentlyDown, hostGone, advertised,
                 registeredServer, backendKind, hostStarted>>

Listens ==
  /\ bound = "listen" /\ bound' = "serving"
  /\ UNCHANGED <<rebindAttempted, permanentlyDown, hostGone, advertised,
                 registeredServer, backendKind, hostStarted>>

\* The extension goes: the backend, which is disposed too, keeps its registration.
DisposeHost ==
  /\ ~ hostGone /\ hostGone' = TRUE /\ advertised' = FALSE
  /\ bound' = IF bound \in {"serving", "listen"} THEN "none" ELSE bound
  /\ UNCHANGED <<rebindAttempted, permanentlyDown, registeredServer, backendKind, hostStarted>>

LspHostNext ==
  StartHost \/ Bound \/ BindFails \/ ListenerError \/ ListenerClosed \/ Listens \/ DisposeHost

--------------------------------------------------------------------------------
\* No listener outlives the dispose, also one whose bind or rebind was under way;
\* and as long as the extension lives the agent is told of the server only while
\* its own advertisement stands, which a host that is down has withdrawn: no new
\* session sends the token to whoever has the port now
\* (libServerHost.ts:233-280, 308-317, 389-416; extension.ts:594-650).
ServerIsOurs ==
  /\ hostGone => bound \notin {"serving", "listen"}
  /\ registeredServer /\ ~ hostGone => advertised
  /\ advertised => ~ permanentlyDown /\ bound \in {"serving", "closing", "listen"}
================================================================================
