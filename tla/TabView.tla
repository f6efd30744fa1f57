------------------------------ MODULE TabView ------------------------------
(***************************************************************************)
(* What the webview shows of each chat tab, and the folds that the host's  *)
(* tab messages apply to it (webview/src/state/transcript.ts and           *)
(* scopedFold.ts).  The module has no variables: a view is a value, and a  *)
(* message is an operator from views to views, so that the composing       *)
(* specification applies a message in the step that emits it.              *)
(*                                                                         *)
(* Tabs are numbered in the order the webview created them.  Tab 0 is the  *)
(* bootstrap tab, the one the first session of a connection is bound to.   *)
(***************************************************************************)
EXTENDS Integers

CONSTANTS
  MaxTab,      \* the tabs a run may create are 0 .. MaxTab
  Sessions,    \* the session ids the agent can issue
  NoSession    \* a tab or an operation that names no session

ASSUME TabViewAssumption == /\ MaxTab \in Nat
                            /\ NoSession \notin Sessions

Tabs  == 0 .. MaxTab
Boot  == 0
NoTab == -1

\* "absent": not created yet.  "unbound": shown, with no session that takes
\* prompts (the code's 'pending' and 'unbound').  "gone": closed by the user,
\* whose id is never minted again.
UIStates == {"absent", "unbound", "bound", "gone"}

TabState == [ui     : UIStates,
             sid    : Sessions \cup {NoSession},
             failed : BOOLEAN]

View == [Tabs -> TabState]

\* Only the bootstrap tab exists when the webview loads.
InitialView ==
  [t \in Tabs |-> [ui     |-> IF t = Boot THEN "unbound" ELSE "absent",
                   sid    |-> NoSession,
                   failed |-> FALSE]]

Shown(view, t) == view[t].ui \in {"unbound", "bound"}

\* foldTabScoped: a message for a tab that is not shown is dropped.
foldTabScoped(view, t, tab) ==
  IF Shown(view, t) THEN [view EXCEPT ![t] = tab] ELSE view

\* tab.bound: the tab takes prompts for s, and open-failed is retired.
TabBound(view, t, s) ==
  foldTabScoped(view, t, [ui |-> "bound", sid |-> s, failed |-> FALSE])

\* tab.error of kind open-failed leaves the binding untouched.
TabOpenFailed(view, t) ==
  foldTabScoped(view, t, [view[t] EXCEPT !.failed = TRUE])

\* tab.error of kind session-lost regresses the binding.  As in the code, the
\* tab keeps the id of the session it lost.
TabSessionLost(view, t) ==
  foldTabScoped(view, t, [view[t] EXCEPT !.ui = "unbound"])

\* One session-lost for each tab of a set.
TabsSessionLost(view, T) ==
  [t \in Tabs |-> IF t \in T THEN TabSessionLost(view, t)[t] ELSE view[t]]

\* tab.clear retires the open-failed marker and leaves the binding.
TabClear(view, t) ==
  foldTabScoped(view, t, [view[t] EXCEPT !.failed = FALSE])

\* local.tab.open: the "+" of the tab strip.
LocalOpen(view, t) ==
  [view EXCEPT ![t] = [ui |-> "unbound", sid |-> NoSession, failed |-> FALSE]]

\* local.tab.close: the tab leaves the state with all it held.
LocalClose(view, t) ==
  [view EXCEPT ![t] = [ui |-> "gone", sid |-> NoSession, failed |-> FALSE]]
=============================================================================
