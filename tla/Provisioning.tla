---------------------------- MODULE Provisioning ----------------------------
(***************************************************************************)
(* Provisioning of capture: concurrent and repeated runs of provision()    *)
(* (src/updatis/capture/provision.py) for one pipeline, over the metadata  *)
(* tables of migrations 0001 and 0002, Kafka Connect and the replication   *)
(* slots of the source.  Connect, the source and its operators are         *)
(* external.                                                               *)
(*                                                                         *)
(* A document is a pipeline configuration.  It names the stream epoch and  *)
(* through resource_names the connector and the slot of that epoch; its    *)
(* capture part stands for the immutable connector properties.             *)
(***************************************************************************)
EXTENDS Naturals, FiniteSets

CONSTANTS
  Run,                  \* invocations of the provisioner
  Document, Epoch, Capture, None,
  EpochOf, CaptureOf,
  MaxSchema,            \* bound: changes of the source schema
  MaxOperations         \* bound: connector edits and deletions, slot losses

ASSUME DocumentsAssumption ==
  /\ EpochOf \in [Document -> Epoch]
  /\ CaptureOf \in [Document -> Capture]
  /\ None \notin Document \cup Epoch \cup Capture \cup Nat
  /\ MaxSchema \in Nat
  /\ MaxOperations \in Nat

VARIABLES
  \* metadata database
  epoch,        \* pipelines.source_stream_epoch
  revision,     \* document of configuration revision 1
  manifest,     \* source_schema_manifests of the epoch
  transitions,  \* stream_epoch_transitions of the epoch
  \* external
  schema,       \* version of the source tables
  connector,    \* immutable configuration of each epoch's connector
  slot,         \* replication slot of each epoch
  operations,
  captured,     \* history: every configuration each epoch's connector has had
  \* each invocation
  pc, doc, seen

metadata == <<epoch, revision, manifest, transitions>>
external == <<schema, connector, slot, operations, captured>>
vars == <<metadata, external, pc, doc, seen>>

SlotState == {"none", "usable", "dropped", "invalidated"}
Transition == {"provisioned", "connector_registered"}
Step == {"idle", "recording", "looking", "asking", "requiring", "posting",
         "rechecking", "marking", "done", "failed"}

Init ==
  /\ epoch = None
  /\ revision = None
  /\ manifest = None
  /\ transitions = {}
  /\ schema = 0
  /\ connector = [e \in Epoch |-> None]
  /\ slot = [e \in Epoch |-> "none"]
  /\ operations = 0
  /\ captured = [e \in Epoch |-> {}]
  /\ pc = [r \in Run |-> "idle"]
  /\ doc = [r \in Run |-> None]
  /\ seen = [r \in Run |-> None]

Goto(r, step) == pc' = [pc EXCEPT ![r] = step]

EpochAt(r) == EpochOf[doc[r]]

Wanted(r) == CaptureOf[doc[r]]

\* Connect gives the connector of epoch e this configuration, or deletes it.
Configure(e, capture) ==
  /\ connector' = [connector EXCEPT ![e] = capture]
  /\ captured' = [captured EXCEPT ![e] = @ \cup ({capture} \ {None})]

-----------------------------------------------------------------------------
(* One invocation.                                                         *)

\* Load the document and read the source schema, before any transaction.
ReadSource(r, d) ==
  /\ pc[r] = "idle"
  /\ doc' = [doc EXCEPT ![r] = d]
  /\ seen' = [seen EXCEPT ![r] = schema]
  /\ Goto(r, "recording")
  /\ UNCHANGED <<metadata, external>>

\* Whatever is stored already must equal what this invocation would store.
Agrees(r) ==
  /\ epoch \in {None, EpochAt(r)}
  /\ revision \in {None, doc[r]}
  /\ manifest \in {None, seen[r]}

\* Mutant: a later invocation overwrites the stored document and manifest.
RecordOverwriting(r) ==
  /\ pc[r] = "recording"
  /\ epoch' = EpochAt(r)
  /\ revision' = doc[r]
  /\ manifest' = seen[r]
  /\ transitions' = transitions \cup {"provisioned"}
  /\ Goto(r, "looking")
  /\ UNCHANGED <<external, doc, seen>>

\* The metadata transaction, under its advisory lock.
Record(r) ==
  /\ pc[r] = "recording"
  /\ Agrees(r)
  /\ epoch' = EpochAt(r)
  /\ revision' = doc[r]
  /\ manifest' = seen[r]
  /\ transitions' = transitions \cup {"provisioned"}
  /\ Goto(r, "looking")
  /\ UNCHANGED <<external, doc, seen>>

RejectRecord(r) ==
  /\ pc[r] = "recording"
  /\ ~Agrees(r)
  /\ Goto(r, "failed")
  /\ UNCHANGED <<metadata, external, doc, seen>>

\* GET /connectors/{name}/config.
Lookup(r) ==
  LET found == connector[EpochAt(r)] IN
  /\ pc[r] = "looking"
  /\ Goto(r, IF found = None THEN "posting"
              ELSE IF found = Wanted(r) THEN "asking" ELSE "failed")
  /\ UNCHANGED <<metadata, external, doc, seen>>

\* connector_was_registered.
AskRegistered(r) ==
  /\ pc[r] = "asking"
  /\ Goto(r, IF "connector_registered" \in transitions THEN "requiring" ELSE "marking")
  /\ UNCHANGED <<metadata, external, doc, seen>>

\* require_usable_slot.
RequireSlot(r) ==
  /\ pc[r] = "requiring"
  /\ Goto(r, IF slot[EpochAt(r)] = "usable" THEN "marking" ELSE "failed")
  /\ UNCHANGED <<metadata, external, doc, seen>>

\* Mutant: the document itself is posted.
PostDocument(r) ==
  LET e == EpochAt(r) IN
  /\ pc[r] = "posting"
  /\ IF connector[e] = None
       THEN Configure(e, doc[r]) /\ Goto(r, "marking")
       ELSE Goto(r, "rechecking") /\ UNCHANGED <<connector, captured>>
  /\ UNCHANGED <<metadata, schema, slot, operations, doc, seen>>

\* POST /connectors answers 201, or 409 if the connector is there by now.
Post(r) ==
  LET e == EpochAt(r) IN
  /\ pc[r] = "posting"
  /\ IF connector[e] = None
       THEN Configure(e, Wanted(r)) /\ Goto(r, "marking")
       ELSE Goto(r, "rechecking") /\ UNCHANGED <<connector, captured>>
  /\ UNCHANGED <<metadata, schema, slot, operations, doc, seen>>

\* Mutant: a conflicting registration is taken for one's own.
RecheckNothing(r) ==
  /\ pc[r] = "rechecking"
  /\ Goto(r, "marking")
  /\ UNCHANGED <<metadata, external, doc, seen>>

\* After a 409 the connector must be the wanted one.
Recheck(r) ==
  /\ pc[r] = "rechecking"
  /\ Goto(r, IF connector[EpochAt(r)] = Wanted(r) THEN "marking" ELSE "failed")
  /\ UNCHANGED <<metadata, external, doc, seen>>

\* mark_registered.
MarkRegistered(r) ==
  /\ pc[r] = "marking"
  /\ transitions' = transitions \cup {"connector_registered"}
  /\ Goto(r, "done")
  /\ UNCHANGED <<epoch, revision, manifest, external, doc, seen>>

\* The process dies, or a database, Connect or publication check fails.
Fail(r) ==
  /\ pc[r] \notin {"idle", "done", "failed"}
  /\ Goto(r, "failed")
  /\ UNCHANGED <<metadata, external, doc, seen>>

\* Connect creates the connector but the answer is lost.
PostReplyLost(r) ==
  LET e == EpochAt(r) IN
  /\ pc[r] = "posting"
  /\ connector[e] = None
  /\ Configure(e, Wanted(r))
  /\ Goto(r, "failed")
  /\ UNCHANGED <<metadata, schema, slot, operations, doc, seen>>

\* The provisioner is run again.
Again(r) ==
  /\ pc[r] \in {"done", "failed"}
  /\ Goto(r, "idle")
  /\ doc' = [doc EXCEPT ![r] = None]
  /\ seen' = [seen EXCEPT ![r] = None]
  /\ UNCHANGED <<metadata, external>>

-----------------------------------------------------------------------------
(* The source, Kafka Connect and their operators.                          *)

AlterSource ==
  /\ schema < MaxSchema
  /\ schema' = schema + 1
  /\ UNCHANGED <<metadata, connector, slot, operations, captured, pc, doc, seen>>

\* The connector's task creates the slot it does not find.
StartTask(e) ==
  /\ connector[e] # None
  /\ slot[e] \in {"none", "dropped"}
  /\ slot' = [slot EXCEPT ![e] = "usable"]
  /\ UNCHANGED <<metadata, schema, connector, operations, captured, pc, doc, seen>>

\* Someone creates, edits or deletes a connector of that name through Connect.
EditConnector(e, capture) ==
  /\ operations < MaxOperations
  /\ operations' = operations + 1
  /\ Configure(e, capture)
  /\ UNCHANGED <<metadata, schema, slot, pc, doc, seen>>

\* The slot is dropped, or its WAL is removed and the slot invalidated.
LoseSlot(e, state) ==
  /\ operations < MaxOperations
  /\ operations' = operations + 1
  /\ slot[e] = "usable"
  /\ slot' = [slot EXCEPT ![e] = state]
  /\ UNCHANGED <<metadata, schema, connector, captured, pc, doc, seen>>

Next ==
  \/ \E r \in Run :
       \/ \E d \in Document : ReadSource(r, d)
       \/ Record(r) \/ RejectRecord(r)
       \/ Lookup(r) \/ AskRegistered(r) \/ RequireSlot(r)
       \/ Post(r) \/ PostReplyLost(r) \/ Recheck(r)
       \/ MarkRegistered(r)
       \/ Fail(r) \/ Again(r)
  \/ AlterSource
  \/ \E e \in Epoch : StartTask(e)
  \/ \E e \in Epoch, capture \in Capture \cup {None} : EditConnector(e, capture)
  \/ \E e \in Epoch, state \in {"dropped", "invalidated"} : LoseSlot(e, state)

Spec == Init /\ [][Next]_vars

-----------------------------------------------------------------------------
(* Properties.                                                             *)

\* Every variable keeps its type.
TypeOK ==
  /\ epoch \in Epoch \cup {None}
  /\ revision \in Document \cup {None}
  /\ manifest \in 0..MaxSchema \cup {None}
  /\ transitions \subseteq Transition
  /\ schema \in 0..MaxSchema
  /\ connector \in [Epoch -> Capture \cup {None}]
  /\ slot \in [Epoch -> SlotState]
  /\ operations \in 0..MaxOperations
  /\ captured \in [Epoch -> SUBSET Capture]
  /\ pc \in [Run -> Step]
  /\ doc \in [Run -> Document \cup {None}]
  /\ seen \in [Run -> 0..MaxSchema \cup {None}]

Recorded(r) == pc[r] \notin {"idle", "recording", "failed"}

\* Whatever else is provisioned meanwhile, an invocation past its metadata
\* transaction works for the stored document and manifest: concurrent and later
\* invocations either agree with the first or fail (the ON CONFLICT DO NOTHING
\* inserts and the comparisons after them).
RecordedStays ==
  \A r \in Run : Recorded(r) =>
    /\ epoch = EpochAt(r)
    /\ revision = doc[r]
    /\ manifest = seen[r]

\* So far nobody but the provisioner has touched Connect or a slot.
Untouched == operations = 0

\* A registered epoch is captured by the connector its stored document asks
\* for, through crashes between the POST and mark_registered and through
\* concurrent registrations, if nobody else touches Connect.
RegisteredIsCaptured ==
  Untouched /\ "connector_registered" \in transitions =>
    connector[epoch] = CaptureOf[revision]

\* A pipeline is captured under one epoch only: provisioning creates no second
\* connector, whichever documents race ("pipeline already belongs to another
\* stream epoch"), if nobody else touches Connect.
OneEpochIsCaptured ==
  Untouched => \A e \in Epoch : connector[e] # None => e = epoch

\* Whatever operators do to Connect and whichever invocations race, an epoch is
\* on record as registered only after its connector has run as the stored
\* document asks: an invocation that meets somebody else's connector, after a
\* lost reply of its own or a conflict, never takes it for the wanted one.
RegisteredWasCaptured ==
  "connector_registered" \in transitions => CaptureOf[revision] \in captured[epoch]

(* The inductive strengthening of these invariants.                        *)

\* An invocation that has begun holds its document and what it read.
Begun ==
  \A r \in Run : pc[r] # "idle" => doc[r] # None /\ seen[r] # None

\* Only the recorded document's connector exists, and whoever has found, posted
\* or registered a connector can still see it.
CapturedByRecord ==
  Untouched =>
    /\ \A e \in Epoch :
         connector[e] # None =>
           e = epoch /\ revision # None /\ connector[e] = CaptureOf[revision]
    /\ \A r \in Run : pc[r] \in {"asking", "requiring", "rechecking", "marking"} =>
         connector[EpochAt(r)] # None
    /\ "connector_registered" \in transitions => epoch # None /\ connector[epoch] # None

\* A connector has had its configuration; who goes on without posting has seen
\* the wanted one; who registered has left the document it worked for.
CapturedOnce ==
  /\ \A e \in Epoch : connector[e] # None => connector[e] \in captured[e]
  /\ \A r \in Run : pc[r] \in {"asking", "requiring", "marking"} =>
       Wanted(r) \in captured[EpochAt(r)]
  /\ "connector_registered" \in transitions =>
       /\ epoch # None /\ revision # None
       /\ CaptureOf[revision] \in captured[epoch]

ProvisionInv ==
  /\ TypeOK
  /\ Begun
  /\ RecordedStays
  /\ CapturedByRecord
  /\ CapturedOnce

-----------------------------------------------------------------------------
(* What the documents say and the code does not do.                        *)

\* "visible rejection of a previously registered epoch after its replication
\* slot is removed; provisioning does not silently recreate lost WAL state":
\* but a connector that is gone as well is created again, unchecked.
LostWalIsNotRecreated ==
  [][\A r \in Run : pc[r] = "posting" /\ pc'[r] = "marking" =>
       ~ /\ "connector_registered" \in transitions
         /\ slot[EpochAt(r)] \in {"dropped", "invalidated"}]_vars

=============================================================================
