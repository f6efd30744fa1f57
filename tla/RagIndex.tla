------------------------------- MODULE RagIndex -------------------------------
(***************************************************************************)
(* The code index, rag/indexer.ts with buildPipeline.ts, watchPipeline.ts  *)
(* and host/util/mutationGate.ts: a vector store and a manifest on disk    *)
(* that says which content of each file is in it, kept by one full build   *)
(* per activation and by debounced file events, all on one promise chain.  *)
(*                                                                         *)
(* The text of a file is a version, "blank" (no chunk survives the secret  *)
(* scan) or "big" (too large or binary); it is embedded in Parts batches.  *)
(* Ignore rules and vector widths are left out; so are secret paths and    *)
(* symbolic links, whose events purge as those of a vanished file do.  The *)
(* awaits of an event before it joins the chain are taken to be shorter    *)
(* than the debounce, so that events keep their order.                     *)
(***************************************************************************)
EXTENDS Naturals, FiniteSets, Sequences, SequencesExt

CONSTANTS IxPaths,     \* the files
          Versions,    \* the texts a file can have
          Parts,       \* batches of one file
          MaxChanges   \* bound: edits and new activations together

ASSUME IndexAssumption ==
  /\ Parts \in Nat \ {0} /\ MaxChanges \in Nat
  /\ Versions \cap {"absent", "big", "blank", "none"} = {}

VARIABLES content,   \* the files of the workspace
          rows,      \* the store: per file the batches it holds
          claims,    \* manifest.json
          meta,      \* manifest.meta.json matches the configuration
          timers,    \* the debounce timers, in the order they fire
          chain,     \* the jobs that wait in buildChain
          job,       \* the job that runs
          disposed,
          torn,      \* history: files whose rows changed with no manifest written
          trouble,   \* history: a call of this activation failed
          changes

ixVars == <<content, rows, claims, meta, timers, chain, job, disposed, torn,
            trouble, changes>>

Contents == Versions \cup {"absent", "big", "blank"}
Hashes == Versions \cup {"blank", "none"}
NoJob == [kind |-> "none", phase |-> "none", on |-> {}, manifest |-> << >>,
          todo |-> {}, recs |-> << >>, swapped |-> {}]

IndexTypeOK ==
  /\ content \in [IxPaths -> Contents]
  /\ \A p \in IxPaths : rows[p] \subseteq Versions \X (1 .. Parts)
  /\ claims \in [IxPaths -> Hashes]
  /\ \A i \in DOMAIN timers : timers[i].on \subseteq IxPaths
  /\ \A i \in DOMAIN chain : chain[i].kind \in {"build", "change", "delete"}
  /\ job.phase \in {"none", "purge", "read", "embed", "upsert", "write"}
  /\ torn \subseteq IxPaths
  /\ meta \in BOOLEAN /\ disposed \in BOOLEAN /\ trouble \in BOOLEAN

\* What a manifest entry h promises about the rows of its file.
Backed(h, r) == r = IF h \in Versions THEN {h} \X (1 .. Parts) ELSE {}
Claimed(p) == claims[p] # "none"
BuildJob == [kind |-> "build", on |-> IxPaths]

IxInit ==
  /\ content \in [IxPaths -> Versions \cup {"absent"}]
  /\ rows = [p \in IxPaths |-> {}] /\ claims = [p \in IxPaths |-> "none"]
  /\ meta = FALSE /\ timers = << >>
  /\ chain = <<BuildJob>> /\ job = NoJob
  /\ disposed = FALSE /\ torn = {} /\ trouble = FALSE
  /\ changes = 0

\* schedule(): the timer of the same file starts anew; equal delays fire in order.
TimersOf(on) == {i \in DOMAIN timers : timers[i].on = on}

Schedule(kind, on) ==
  timers' = Append(IF TimersOf(on) = {} THEN timers
                   ELSE RemoveAt(timers, CHOOSE i \in TimersOf(on) : TRUE),
                   [kind |-> kind, on |-> on])

\* The user or the agent writes or deletes a file.
EditFile(p) ==
  /\ changes < MaxChanges
  /\ changes' = changes + 1
  /\ \E c \in Contents :
       /\ content[p] = "absent" => c # "absent"
       /\ content' = [content EXCEPT ![p] = c]
       /\ Schedule(IF c = "absent" THEN "delete" ELSE "change", {p})
  /\ UNCHANGED <<rows, claims, meta, chain, job, disposed, torn, trouble>>

\* A directory goes: one event, for the directory.
DeleteDir ==
  /\ changes < MaxChanges /\ Cardinality(IxPaths) > 1
  /\ changes' = changes + 1
  /\ content' = [p \in IxPaths |-> "absent"]
  /\ Schedule("delete", IxPaths)
  /\ UNCHANGED <<rows, claims, meta, chain, job, disposed, torn, trouble>>

\* handleFsEvent up to the chain.
TimerFires ==
  /\ timers # << >>
  /\ timers' = Tail(timers)
  /\ chain' = IF disposed THEN chain ELSE Append(chain, Head(timers))
  /\ UNCHANGED <<content, rows, claims, meta, job, disposed, torn, trouble, changes>>

\* A job ends without having written the manifest.
EndUnwritten ==
  /\ job' = NoJob
  /\ torn' = torn \cup {p \in IxPaths : Claimed(p) /\ ~ Backed(claims[p], rows'[p])}
  /\ UNCHANGED <<content, claims, meta, timers, chain, disposed, changes>>

Continue(j) ==
  /\ job' = j
  /\ UNCHANGED <<content, claims, meta, timers, chain, disposed, torn, changes>>

\* The files a build hashes, with their hashes.
Hashed(p) == IF content[p] \in {"absent", "big"} THEN "none" ELSE content[p]

\* The build: the entries of files that are gone are purged, the files
\* whose hash differs, or all of them under another fingerprint, reindexed.
BuildStart(manifest) ==
  [kind |-> "build", phase |-> "purge", on |-> {p \in IxPaths : Hashed(p) # "none"
                        /\ (~ meta \/ Hashed(p) # manifest[p])},
   manifest |-> manifest,
   todo |-> {p \in IxPaths : manifest[p] # "none" /\ Hashed(p) = "none"},
   recs |-> << >>, swapped |-> {}]

\* An event: a deletion, and a change of a vanished file, purges.
EventStart(j, manifest) ==
  LET purges == j.kind = "delete" \/ \E p \in j.on : content[p] = "absent"
  IN [kind |-> j.kind, phase |-> IF purges THEN "purge" ELSE "read", on |-> {},
      manifest |-> manifest, todo |-> j.on, recs |-> << >>, swapped |-> {}]

\* serialize(): the next job reads the manifest; a failing read gives an empty one.
JobStarts ==
  /\ job = NoJob /\ chain # << >> /\ ~ disposed
  /\ chain' = Tail(chain)
  /\ \E manifest \in {claims, [p \in IxPaths |-> "none"]} :
       /\ trouble' = (trouble \/ manifest # claims)
       /\ job' = IF Head(chain).kind = "build" THEN BuildStart(manifest)
                 ELSE EventStart(Head(chain), manifest)
  /\ UNCHANGED <<content, rows, claims, meta, timers, disposed, torn, changes>>

JobSkipped ==
  /\ job = NoJob /\ chain # << >> /\ disposed
  /\ chain' = Tail(chain)
  /\ UNCHANGED <<content, rows, claims, meta, timers, job, disposed, torn, trouble, changes>>

\* gate.sink: a mutation of the store is refused once the gate is closed.
Sink(r) == rows' = IF disposed THEN rows ELSE r

\* One key is purged from the store and struck from the manifest in memory.
Purge(p) ==
  /\ job.phase = "purge" /\ p \in job.todo
  /\ Sink([rows EXCEPT ![p] = {}])
  /\ Continue([job EXCEPT !.todo = @ \ {p}, !.manifest[p] = "none"])
  /\ UNCHANGED trouble

\* deleteByPath rejects: the event or the build is over, nothing is persisted.
PurgeFails ==
  /\ job.phase = "purge" /\ job.todo # {} /\ ~ disposed
  /\ trouble' = TRUE
  /\ UNCHANGED rows
  /\ EndUnwritten

Purged ==
  /\ job.phase = "purge" /\ job.todo = {}
  /\ Continue(IF job.kind = "build" THEN [job EXCEPT !.phase = "read", !.todo = job.on]
              ELSE [job EXCEPT !.phase = "write"])
  /\ UNCHANGED <<rows, trouble>>

\* buildPendingRecords, one file: vanished, too large, nothing to embed, or queued.
ReadFile(p) ==
  /\ job.phase = "read" /\ p \in job.todo
  /\ LET rest == [job EXCEPT !.todo = @ \ {p}]
         c == content[p]
     IN \/ c = "absent" /\ Continue(rest) /\ UNCHANGED rows
        \/ /\ c \in {"big", "blank"}
           /\ Sink([rows EXCEPT ![p] = {}])
           /\ Continue([rest EXCEPT !.manifest[p] = IF c = "big" THEN "none" ELSE "blank"])
        \/ /\ c \in Versions
           /\ Continue([rest EXCEPT !.recs = @ \o [i \in 1 .. Parts |-> <<p, c, i>>]])
           /\ UNCHANGED rows
  /\ UNCHANGED trouble

\* deleteByPath rejects for such a file: what was settled so far is persisted.
ReadFails ==
  /\ job.phase = "read" /\ ~ disposed
  /\ \E p \in job.todo : content[p] \in {"big", "blank"}
  /\ trouble' = TRUE
  /\ UNCHANGED rows
  /\ Continue([job EXCEPT !.phase = "write", !.kind = "failed", !.recs = << >>])

FilesRead ==
  /\ job.phase = "read" /\ job.todo = {}
  /\ Continue([job EXCEPT !.phase = IF job.recs = << >> THEN "write" ELSE "embed"])
  /\ UNCHANGED <<rows, trouble>>

\* The batch is in the store; a file whose last batch it was is claimed.
Upserted(b) ==
  [job EXCEPT !.recs = Tail(@),
              !.phase = IF Len(job.recs) = 1 THEN "write" ELSE "embed",
              !.manifest[b[1]] = IF b[3] = Parts THEN b[2] ELSE @]

\* The embedder answers the first batch of a file: its old rows go now.
EmbedSwaps ==
  /\ job.phase = "embed" /\ ~ disposed
  /\ LET b == Head(job.recs)
     IN /\ b[1] \notin job.swapped
        /\ rows' = [rows EXCEPT ![b[1]] = {}]
        /\ Continue([job EXCEPT !.phase = "upsert", !.swapped = @ \cup {b[1]}])
  /\ UNCHANGED trouble

\* It answers a later batch, which is stored at once.
EmbedStores ==
  /\ job.phase = "embed" /\ ~ disposed
  /\ LET b == Head(job.recs)
     IN /\ b[1] \in job.swapped
        /\ rows' = [rows EXCEPT ![b[1]] = @ \cup {<<b[2], b[3]>>}]
        /\ Continue(Upserted(b))
  /\ UNCHANGED trouble

\* The upsert of a first batch, after the await of the delete.
Upsert ==
  /\ job.phase = "upsert"
  /\ LET b == Head(job.recs)
     IN /\ Sink([rows EXCEPT ![b[1]] = @ \cup {<<b[2], b[3]>>}])
        /\ Continue(Upserted(b))
  /\ UNCHANGED trouble

\* The answer finds the indexer disposed: bail.
EmbedBails ==
  /\ job.phase \in {"embed", "write"} /\ disposed
  /\ UNCHANGED <<rows, trouble>>
  /\ EndUnwritten

\* Mutant: a failure leaves the manifest as it was.
SwapFailsUnwritten ==
  /\ job.phase \in {"embed", "upsert"} /\ ~ disposed
  /\ job' = NoJob /\ trouble' = TRUE
  /\ UNCHANGED <<content, rows, claims, meta, timers, chain, disposed, torn, changes>>

\* The embedder or the store fails: files that lost rows are struck and the
\* manifest is written before the error goes on.
SwapFails ==
  /\ job.phase \in {"embed", "upsert"} /\ ~ disposed
  /\ LET unfinished == {job.recs[i][1] : i \in DOMAIN job.recs}
     IN Continue([job EXCEPT !.phase = "write", !.recs = << >>, !.kind = "failed",
           !.manifest = [p \in IxPaths |-> IF p \in job.swapped \cap unfinished
                                           THEN "none" ELSE @[p]]])
  /\ trouble' = TRUE
  /\ UNCHANGED rows

\* writeManifest: temporary file and rename; a build that succeeded writes meta too.
WriteManifest ==
  /\ job.phase = "write" /\ ~ disposed
  /\ claims' = job.manifest /\ job' = NoJob
  /\ torn' = {p \in torn : job.manifest[p] # "none" /\ ~ Backed(job.manifest[p], rows[p])}
  /\ meta' \in IF job.kind = "build" THEN {TRUE, meta} ELSE {meta}
  /\ UNCHANGED <<content, rows, timers, chain, disposed, trouble, changes>>

ManifestWriteFails ==
  /\ job.phase = "write" /\ ~ disposed
  /\ trouble' = TRUE
  /\ UNCHANGED rows
  /\ EndUnwritten

\* Deactivation: the watcher clears its timers, the indexer closes the gate.
DisposeIndexer ==
  /\ ~ disposed
  /\ disposed' = TRUE /\ timers' = << >>
  /\ UNCHANGED <<content, rows, claims, meta, chain, job, torn, trouble, changes>>

\* A new activation, after a dispose or a crash; one file and the
\* configuration may have changed in between.  watch() comes before build().
Reactivate ==
  /\ changes < MaxChanges
  /\ changes' = changes + 1
  /\ \E p \in IxPaths, c \in Contents : content' = [content EXCEPT ![p] = c]
  /\ meta' \in {meta, FALSE}
  /\ timers' = << >> /\ chain' = <<BuildJob>> /\ job' = NoJob
  /\ disposed' = FALSE /\ trouble' = FALSE
  /\ torn' = torn \cup {p \in IxPaths : Claimed(p) /\ ~ Backed(claims[p], rows[p])}
  /\ UNCHANGED <<rows, claims>>

IxNext ==
  \/ DeleteDir \/ TimerFires \/ JobStarts \/ JobSkipped
  \/ PurgeFails \/ Purged \/ ReadFails \/ FilesRead
  \/ EmbedSwaps \/ EmbedStores \/ Upsert \/ EmbedBails \/ SwapFails
  \/ WriteManifest \/ ManifestWriteFails \/ DisposeIndexer \/ Reactivate
  \/ \E p \in IxPaths : EditFile(p) \/ Purge(p) \/ ReadFile(p)

-----------------------------------------------------------------------------
Quiet == job = NoJob /\ ~ disposed

\* Between two jobs the manifest claims a file only with all its rows in the
\* store, but for files whose rows were changed by a job that a failing write, a
\* failing delete, dispose() or a crash kept from its manifest; and when no call
\* of this activation failed and no event is left, it claims the present text of
\* every file that can be indexed and no other (buildPipeline.ts:389-399,
\* 621-634, watchPipeline.ts:113-119, 137-143, 229-235).
IndexFollowsFiles ==
  Quiet =>
    /\ \A p \in IxPaths : Claimed(p) => p \in torn \/ Backed(claims[p], rows[p])
    /\ (timers = << >> /\ chain = << >> /\ ~ trouble)
         => \A p \in IxPaths : claims[p] = Hashed(p)
=============================================================================
