------------------------- MODULE ProvisioningProofs -------------------------
(***************************************************************************)
(* Machine-checked theorems about Provisioning, for every set of           *)
(* invocations, documents, epochs and captures.                            *)
(***************************************************************************)
EXTENDS Provisioning, TLAPS

\* The steps of one invocation, and those of everybody else.
Invoke(r) ==
  \/ \E d \in Document : ReadSource(r, d)
  \/ Record(r) \/ RejectRecord(r)
  \/ Lookup(r) \/ AskRegistered(r) \/ RequireSlot(r)
  \/ Post(r) \/ PostReplyLost(r) \/ Recheck(r)
  \/ MarkRegistered(r)
  \/ Fail(r) \/ Again(r)

Outside ==
  \/ AlterSource
  \/ \E e \in Epoch : StartTask(e)
  \/ \E e \in Epoch, capture \in Capture \cup {None} : EditConnector(e, capture)
  \/ \E e \in Epoch, state \in {"dropped", "invalidated"} : LoseSlot(e, state)

LEMMA NextSplit == Next <=> (\E r \in Run : Invoke(r)) \/ Outside
BY DEF Next, Invoke, Outside

-----------------------------------------------------------------------------
(* Type correctness.                                                       *)

LEMMA InitTypeOK == Init => TypeOK
BY DocumentsAssumption DEF Init, TypeOK, SlotState, Step

LEMMA GotoTyping ==
  ASSUME TypeOK, NEW r \in Run, NEW s \in Step, Goto(r, s)
  PROVE  pc' \in [Run -> Step]
BY DEF TypeOK, Goto

LEMMA InvokeTypeOK ==
  ASSUME TypeOK, Begun, NEW r \in Run, Invoke(r)
  PROVE  TypeOK'
<1> USE DocumentsAssumption DEF TypeOK, metadata, external, Step, Goto
<1>1. CASE \E d \in Document : ReadSource(r, d)
  BY <1>1 DEF ReadSource
<1>2. CASE Record(r)
  BY <1>2 DEF Record, EpochAt, Begun, Transition
<1>3. CASE RejectRecord(r)
  BY <1>3 DEF RejectRecord
<1>4. CASE Lookup(r)
  BY <1>4 DEF Lookup
<1>5. CASE AskRegistered(r)
  BY <1>5 DEF AskRegistered
<1>6. CASE RequireSlot(r)
  BY <1>6 DEF RequireSlot
<1>7. CASE Post(r)
  BY <1>7 DEF Post, Configure, EpochAt, Wanted, Begun
<1>8. CASE PostReplyLost(r)
  BY <1>8 DEF PostReplyLost, Configure, EpochAt, Wanted, Begun
<1>9. CASE Recheck(r)
  BY <1>9 DEF Recheck
<1>10. CASE MarkRegistered(r)
  BY <1>10 DEF MarkRegistered, Transition
<1>11. CASE Fail(r)
  BY <1>11 DEF Fail
<1>12. CASE Again(r)
  BY <1>12 DEF Again
<1> QED
  BY <1>1, <1>2, <1>3, <1>4, <1>5, <1>6, <1>7, <1>8, <1>9, <1>10, <1>11, <1>12 DEF Invoke

LEMMA OutsideTypeOK == TypeOK /\ Outside => TypeOK'
<1> SUFFICES ASSUME TypeOK, Outside PROVE TypeOK'
  OBVIOUS
<1> USE DocumentsAssumption DEF TypeOK, metadata
<1>1. CASE AlterSource
  BY <1>1 DEF AlterSource
<1>2. CASE \E e \in Epoch : StartTask(e)
  BY <1>2 DEF StartTask, SlotState
<1>3. CASE \E e \in Epoch, capture \in Capture \cup {None} : EditConnector(e, capture)
  BY <1>3 DEF EditConnector, Configure
<1>4. CASE \E e \in Epoch, state \in {"dropped", "invalidated"} : LoseSlot(e, state)
  BY <1>4 DEF LoseSlot, SlotState
<1> QED
  BY <1>1, <1>2, <1>3, <1>4 DEF Outside

-----------------------------------------------------------------------------
(* Begun.                                                                  *)

LEMMA InvokeBegun ==
  ASSUME TypeOK, Begun, NEW r \in Run, Invoke(r)
  PROVE  Begun'
<1> USE DEF TypeOK, Begun, Goto
<1>1. CASE \E d \in Document : ReadSource(r, d)
  BY <1>1, DocumentsAssumption DEF ReadSource
<1>2. CASE Again(r)
  BY <1>2 DEF Again
<1>3. CASE ~Again(r) /\ ~\E d \in Document : ReadSource(r, d)
  <2>1. doc' = doc /\ seen' = seen /\ pc[r] # "idle"
    BY <1>3 DEF Invoke, Record, RejectRecord, Lookup, AskRegistered, RequireSlot, Post,
                PostReplyLost, Recheck, MarkRegistered, Fail
  <2>2. \A q \in Run : q # r => pc'[q] = pc[q]
    BY <1>3 DEF Invoke, Record, RejectRecord, Lookup, AskRegistered, RequireSlot, Post,
                PostReplyLost, Recheck, MarkRegistered, Fail
  <2> QED
    BY <2>1, <2>2
<1> QED
  BY <1>1, <1>2, <1>3

LEMMA OutsideBegun == Begun /\ Outside => Begun'
BY DEF Begun, Outside, AlterSource, StartTask, EditConnector, LoseSlot

-----------------------------------------------------------------------------
(* RecordedStays.                                                          *)

\* Recording changes nothing that has been recorded before.
LEMMA RecordKeeps ==
  ASSUME ProvisionInv, NEW r \in Run, Record(r)
  PROVE  /\ epoch' = EpochAt(r) /\ revision' = doc[r] /\ manifest' = seen[r]
         /\ epoch # None => epoch' = epoch
         /\ revision # None => revision' = revision
         /\ manifest # None => manifest' = manifest
BY DEF Record, Agrees

LEMMA RecordedIsNotNone ==
  ASSUME ProvisionInv, NEW r \in Run, Recorded(r)
  PROVE  /\ doc[r] \in Document /\ EpochAt(r) \in Epoch /\ Wanted(r) \in Capture
         /\ epoch = EpochAt(r) /\ revision = doc[r] /\ manifest = seen[r]
         /\ epoch # None /\ revision # None /\ manifest # None
<1>1. doc[r] \in Document /\ seen[r] # None
  BY DEF ProvisionInv, TypeOK, Begun, Recorded
<1>2. epoch = EpochAt(r) /\ revision = doc[r] /\ manifest = seen[r]
  BY DEF ProvisionInv, RecordedStays
<1>3. EpochAt(r) \in Epoch
  BY <1>1, DocumentsAssumption DEF EpochAt
<1>4. Wanted(r) \in Capture
  BY <1>1, DocumentsAssumption DEF Wanted, ProvisionInv, TypeOK
<1> QED
  BY <1>1, <1>2, <1>3, <1>4, DocumentsAssumption

\* What an invocation leaves alone unless it records, reads or starts over.
LEMMA InvokeFrame ==
  ASSUME TypeOK, NEW r \in Run, Invoke(r)
  PROVE  /\ \A q \in Run : q # r => pc'[q] = pc[q] /\ doc'[q] = doc[q] /\ seen'[q] = seen[q]
         /\ Record(r) \/ (epoch' = epoch /\ revision' = revision /\ manifest' = manifest)
         /\ pc'[r] \notin {"idle", "recording", "failed"} =>
              doc'[r] = doc[r] /\ seen'[r] = seen[r] /\ (Record(r) \/ Recorded(r))
         /\ operations' = operations
<1> USE DEF TypeOK, metadata, external, Goto, Recorded
<1>1. CASE \E d \in Document : ReadSource(r, d)
  BY <1>1 DEF ReadSource
<1>2. CASE Record(r)
  BY <1>2 DEF Record
<1>3. CASE RejectRecord(r)
  BY <1>3 DEF RejectRecord
<1>4. CASE Lookup(r) \/ AskRegistered(r) \/ RequireSlot(r)
  BY <1>4 DEF Lookup, AskRegistered, RequireSlot
<1>5. CASE Post(r) \/ PostReplyLost(r) \/ Recheck(r)
  BY <1>5 DEF Post, PostReplyLost, Recheck, Configure
<1>6. CASE MarkRegistered(r)
  BY <1>6 DEF MarkRegistered
<1>7. CASE Fail(r) \/ Again(r)
  BY <1>7 DEF Fail, Again
<1> QED
  BY <1>1, <1>2, <1>3, <1>4, <1>5, <1>6, <1>7 DEF Invoke

LEMMA InvokeRecordedStays ==
  ASSUME ProvisionInv, NEW r \in Run, Invoke(r)
  PROVE  RecordedStays'
<1> SUFFICES ASSUME NEW q \in Run, Recorded(q)'
             PROVE  epoch' = EpochAt(q)' /\ revision' = doc'[q] /\ manifest' = seen'[q]
  BY DEF RecordedStays
<1> TypeOK
  BY DEF ProvisionInv
<1>1. doc'[q] = doc[q] /\ seen'[q] = seen[q] /\ EpochAt(q)' = EpochAt(q)
  BY InvokeFrame DEF Recorded, EpochAt
<1>2. CASE q = r /\ Record(r)
  BY <1>1, <1>2, RecordKeeps
<1>3. CASE ~(q = r /\ Record(r))
  <2>1. Recorded(q)
    BY <1>3, InvokeFrame DEF Recorded
  <2>2. /\ epoch = EpochAt(q) /\ revision = doc[q] /\ manifest = seen[q]
        /\ epoch # None /\ revision # None /\ manifest # None
    BY <2>1, RecordedIsNotNone
  <2>3. epoch' = epoch /\ revision' = revision /\ manifest' = manifest
    BY <2>2, InvokeFrame, RecordKeeps
  <2> QED
    BY <1>1, <2>2, <2>3
<1> QED
  BY <1>2, <1>3

LEMMA OutsideRecordedStays == RecordedStays /\ Outside => RecordedStays'
BY DEF RecordedStays, Recorded, EpochAt, metadata, Outside, AlterSource, StartTask, EditConnector, LoseSlot

-----------------------------------------------------------------------------
(* CapturedByRecord.                                                       *)

\* What an invocation does to Connect and to the registration.
LEMMA InvokeConnector ==
  ASSUME ProvisionInv, NEW r \in Run, Invoke(r)
  PROVE  \/ connector' = connector
         \/ /\ Recorded(r) /\ ~Record(r)
            /\ connector[EpochAt(r)] = None
            /\ connector' = [connector EXCEPT ![EpochAt(r)] = Wanted(r)]
<1>1. CASE Post(r) \/ PostReplyLost(r)
  <2>1. Recorded(r) /\ ~Record(r)
    BY <1>1 DEF Post, PostReplyLost, Record, Recorded
  <2> QED
    BY <1>1, <2>1 DEF Post, PostReplyLost, Configure
<1>2. CASE ~(Post(r) \/ PostReplyLost(r))
  BY <1>2 DEF Invoke, external, ReadSource, Record, RejectRecord, Lookup, AskRegistered,
              RequireSlot, Recheck, MarkRegistered, Fail, Again
<1> QED
  BY <1>1, <1>2

\* An invocation that has seen a connector goes on only while there is one.
LEMMA InvokeSees ==
  ASSUME ProvisionInv, CapturedByRecord, Untouched, NEW r \in Run, Invoke(r),
         pc'[r] \in {"asking", "requiring", "rechecking", "marking"}
  PROVE  connector'[EpochAt(r)'] # None
<1> TypeOK
  BY DEF ProvisionInv
<1> USE DEF TypeOK, Goto, EpochAt, Wanted
<1>1. ~Record(r) /\ doc'[r] = doc[r]
  BY InvokeFrame DEF Record
<1>2. Recorded(r)
  BY <1>1, InvokeFrame
<1>3. EpochAt(r) \in Epoch /\ Wanted(r) \in Capture /\ Wanted(r) # None
  BY <1>2, RecordedIsNotNone, DocumentsAssumption
<1>4. CASE Lookup(r)
  BY <1>1, <1>3, <1>4 DEF Lookup, external
<1>5. CASE AskRegistered(r) \/ RequireSlot(r) \/ Recheck(r)
  BY <1>1, <1>5 DEF AskRegistered, RequireSlot, Recheck, external, CapturedByRecord
<1>6. CASE Post(r)
  BY <1>1, <1>3, <1>6 DEF Post, Configure
<1>7. CASE ~(Lookup(r) \/ AskRegistered(r) \/ RequireSlot(r) \/ Recheck(r) \/ Post(r))
  BY <1>1, <1>7 DEF Invoke, ReadSource, RejectRecord, PostReplyLost, MarkRegistered, Fail, Again
<1> QED
  BY <1>4, <1>5, <1>6, <1>7

LEMMA InvokeCaptured ==
  ASSUME ProvisionInv, NEW r \in Run, Invoke(r)
  PROVE  CapturedByRecord'
<1> TypeOK
  BY DEF ProvisionInv
<1> SUFFICES ASSUME Untouched'
             PROVE  /\ \A e \in Epoch : connector'[e] # None =>
                         /\ e = epoch' /\ revision' # None
                         /\ connector'[e] = CaptureOf[revision']
                    /\ \A q \in Run : pc'[q] \in {"asking", "requiring", "rechecking", "marking"} =>
                         connector'[EpochAt(q)'] # None
                    /\ "connector_registered" \in transitions' =>
                         epoch' # None /\ connector'[epoch'] # None
  BY DEF CapturedByRecord
<1>1. Untouched
  BY InvokeFrame DEF Untouched
<1>2. /\ \A e \in Epoch : connector[e] # None =>
           e = epoch /\ revision # None /\ connector[e] = CaptureOf[revision]
      /\ \A q \in Run : pc[q] \in {"asking", "requiring", "rechecking", "marking"} =>
           connector[EpochAt(q)] # None
      /\ "connector_registered" \in transitions => epoch # None /\ connector[epoch] # None
  BY <1>1 DEF ProvisionInv, CapturedByRecord
<1>3. Recorded(r) => /\ EpochAt(r) \in Epoch /\ Wanted(r) # None
                     /\ epoch = EpochAt(r) /\ revision = doc[r]
                     /\ epoch # None /\ revision # None
  BY RecordedIsNotNone, DocumentsAssumption
<1>4. epoch # None => epoch' = epoch
  BY InvokeFrame, RecordKeeps
<1>5. \A e \in Epoch : connector[e] # None => connector'[e] = connector[e]
  BY InvokeConnector DEF TypeOK
<1>6. ASSUME NEW e \in Epoch, connector'[e] # None
      PROVE  e = epoch' /\ revision' # None /\ connector'[e] = CaptureOf[revision']
  <2>1. CASE connector[e] # None
    <3>1. epoch # None /\ revision # None
      BY <1>2, <2>1, DocumentsAssumption
    <3>2. revision' = revision
      BY <3>1, InvokeFrame, RecordKeeps
    <3> QED
      BY <1>2, <1>4, <1>5, <2>1, <3>1, <3>2
  <2>2. CASE connector[e] = None
    <3>1. Recorded(r) /\ ~Record(r) /\ e = EpochAt(r) /\ connector'[e] = Wanted(r)
      BY <1>6, <2>2, InvokeConnector DEF TypeOK
    <3>2. epoch' = epoch /\ revision' = revision
      BY <3>1, InvokeFrame
    <3> QED
      BY <1>3, <3>1, <3>2 DEF Wanted
  <2> QED
    BY <2>1, <2>2
<1>7. ASSUME NEW q \in Run, pc'[q] \in {"asking", "requiring", "rechecking", "marking"}
      PROVE  connector'[EpochAt(q)'] # None
  <2>1. CASE q = r
    BY <1>1, <1>7, <2>1, InvokeSees DEF ProvisionInv
  <2>2. CASE q # r
    <3>1. pc[q] = pc'[q] /\ EpochAt(q)' = EpochAt(q)
      BY <2>2, InvokeFrame DEF EpochAt
    <3>2. EpochAt(q) \in Epoch
      BY <1>7, <3>1, RecordedIsNotNone DEF Recorded
    <3> QED
      BY <1>2, <1>5, <1>7, <3>1, <3>2
  <2> QED
    BY <2>1, <2>2
<1>8. ASSUME "connector_registered" \in transitions'
      PROVE  epoch' # None /\ connector'[epoch'] # None
  <2>1. CASE "connector_registered" \in transitions
    BY <1>2, <1>4, <1>5, <2>1 DEF TypeOK
  <2>2. CASE MarkRegistered(r)
    <3>1. Recorded(r) /\ connector[EpochAt(r)] # None
      BY <1>2, <2>2 DEF MarkRegistered, Recorded
    <3> QED
      BY <1>3, <1>4, <1>5, <3>1
  <2>3. CASE "connector_registered" \notin transitions /\ ~MarkRegistered(r)
    BY <1>8, <2>3 DEF Invoke, metadata, ReadSource, Record, RejectRecord, Lookup, AskRegistered,
       RequireSlot, Post, PostReplyLost, Recheck, Fail, Again
  <2> QED
    BY <2>1, <2>2, <2>3
<1> QED
  BY <1>6, <1>7, <1>8

\* An edit ends Untouched; nothing else outside touches connectors or metadata.
LEMMA OutsideCaptured == TypeOK /\ CapturedByRecord /\ Outside => CapturedByRecord'
<1> SUFFICES ASSUME TypeOK, CapturedByRecord, Outside PROVE CapturedByRecord'
  OBVIOUS
<1>1. CASE AlterSource \/ \E e \in Epoch : StartTask(e)
  BY <1>1 DEF AlterSource, StartTask, CapturedByRecord, Untouched, metadata, EpochAt
<1>2. CASE \/ \E e \in Epoch, capture \in Capture \cup {None} : EditConnector(e, capture)
           \/ \E e \in Epoch, state \in {"dropped", "invalidated"} : LoseSlot(e, state)
  BY <1>2, DocumentsAssumption DEF EditConnector, LoseSlot, Configure, CapturedByRecord, Untouched, TypeOK
<1> QED
  BY <1>1, <1>2 DEF Outside

-----------------------------------------------------------------------------
(* CapturedOnce.                                                           *)

\* The history only grows, and holds whatever a connector is given.
LEMMA ConfigureRecords ==
  ASSUME TypeOK, NEW e \in Epoch, NEW c \in Capture \cup {None}, Configure(e, c)
  PROVE  /\ \A x \in Epoch : captured[x] \subseteq captured'[x]
         /\ \A x \in Epoch : connector'[x] # None =>
              connector'[x] = connector[x] \/ connector'[x] \in captured'[x]
         /\ c # None => c \in captured'[e]
<1> USE DEF TypeOK, Configure
<1>1. \A x \in Epoch : captured'[x] = IF x = e THEN captured[x] \cup ({c} \ {None}) ELSE captured[x]
  OBVIOUS
<1>2. \A x \in Epoch : connector'[x] = IF x = e THEN c ELSE connector[x]
  OBVIOUS
<1> QED
  BY <1>1, <1>2

LEMMA InvokeRecords ==
  ASSUME ProvisionInv, NEW r \in Run, Invoke(r)
  PROVE  /\ \A x \in Epoch : captured[x] \subseteq captured'[x]
         /\ \A x \in Epoch : connector'[x] # None =>
              connector'[x] = connector[x] \/ connector'[x] \in captured'[x]
<1>1. CASE Post(r) \/ PostReplyLost(r)
  <2>1. Recorded(r)
    BY <1>1 DEF Post, PostReplyLost, Recorded
  <2>2. EpochAt(r) \in Epoch /\ Wanted(r) \in Capture
    BY <2>1, RecordedIsNotNone
  <2> QED
    BY <1>1, <2>2, ConfigureRecords DEF Post, PostReplyLost, ProvisionInv
<1>2. CASE ~(Post(r) \/ PostReplyLost(r))
  BY <1>2 DEF Invoke, external, ReadSource, Record, RejectRecord, Lookup, AskRegistered,
              RequireSlot, Recheck, MarkRegistered, Fail, Again
<1> QED
  BY <1>1, <1>2

\* Whoever goes on without posting, or after a POST or a conflict, has seen the
\* connector its document asks for.
LEMMA InvokeVerifies ==
  ASSUME ProvisionInv, NEW r \in Run, Invoke(r),
         pc'[r] \in {"asking", "requiring", "marking"}
  PROVE  Wanted(r)' \in captured'[EpochAt(r)']
<1> TypeOK
  BY DEF ProvisionInv
<1>1. ~Record(r) /\ doc'[r] = doc[r]
  BY InvokeFrame DEF Record, Goto, TypeOK
<1>2. EpochAt(r)' = EpochAt(r) /\ Wanted(r)' = Wanted(r)
  BY <1>1 DEF EpochAt, Wanted
<1>3. EpochAt(r) \in Epoch /\ Wanted(r) \in Capture /\ Wanted(r) # None
  BY <1>1, InvokeFrame, RecordedIsNotNone, DocumentsAssumption
<1>4. Wanted(r) \in captured'[EpochAt(r)]
  <2>1. CASE Lookup(r) \/ Recheck(r)
    <3>1. connector[EpochAt(r)] = Wanted(r) /\ captured' = captured
      BY <2>1 DEF Lookup, Recheck, Goto, TypeOK, external
    <3> QED
      BY <1>3, <3>1 DEF ProvisionInv, CapturedOnce
  <2>2. CASE AskRegistered(r) \/ RequireSlot(r)
    <3>1. pc[r] \in {"asking", "requiring"} /\ captured' = captured
      BY <2>2 DEF AskRegistered, RequireSlot, external
    <3> QED
      BY <3>1 DEF ProvisionInv, CapturedOnce
  <2>3. CASE Post(r)
    <3>1. Configure(EpochAt(r), Wanted(r))
      BY <2>3 DEF Post, Goto, TypeOK
    <3> QED
      BY <1>3, <3>1, ConfigureRecords
  <2>4. CASE ~(Lookup(r) \/ Recheck(r) \/ AskRegistered(r) \/ RequireSlot(r) \/ Post(r))
    BY <1>1, <2>4 DEF Invoke, ReadSource, RejectRecord, PostReplyLost, MarkRegistered, Fail,
                      Again, Goto, TypeOK
  <2> QED
    BY <2>1, <2>2, <2>3, <2>4
<1> QED
  BY <1>2, <1>4

LEMMA InvokeCapturedOnce ==
  ASSUME ProvisionInv, NEW r \in Run, Invoke(r)
  PROVE  CapturedOnce'
<1> TypeOK
  BY DEF ProvisionInv
<1>1. ASSUME NEW e \in Epoch, connector'[e] # None
      PROVE  connector'[e] \in captured'[e]
  BY <1>1, InvokeRecords DEF ProvisionInv, CapturedOnce
<1>2. ASSUME NEW q \in Run, pc'[q] \in {"asking", "requiring", "marking"}
      PROVE  Wanted(q)' \in captured'[EpochAt(q)']
  <2>1. CASE q = r
    BY <1>2, <2>1, InvokeVerifies
  <2>2. CASE q # r
    <3>1. pc'[q] = pc[q] /\ EpochAt(q)' = EpochAt(q) /\ Wanted(q)' = Wanted(q)
      BY <2>2, InvokeFrame DEF EpochAt, Wanted
    <3>2. EpochAt(q) \in Epoch
      BY <1>2, <3>1, RecordedIsNotNone DEF Recorded
    <3>3. Wanted(q) \in captured[EpochAt(q)]
      BY <1>2, <3>1 DEF ProvisionInv, CapturedOnce
    <3> QED
      BY <3>1, <3>2, <3>3, InvokeRecords
  <2> QED
    BY <2>1, <2>2
<1>3. ASSUME "connector_registered" \in transitions'
      PROVE  epoch' # None /\ revision' # None /\ CaptureOf[revision'] \in captured'[epoch']
  <2>1. CASE "connector_registered" \in transitions
    <3>1. epoch # None /\ revision # None /\ CaptureOf[revision] \in captured[epoch]
      BY <2>1 DEF ProvisionInv, CapturedOnce
    <3>2. epoch' = epoch /\ revision' = revision /\ epoch \in Epoch
      BY <3>1, InvokeFrame, RecordKeeps DEF TypeOK
    <3> QED
      BY <3>1, <3>2, InvokeRecords
  <2>2. CASE MarkRegistered(r)
    <3>1. Recorded(r) /\ Wanted(r) \in captured[EpochAt(r)]
      BY <2>2 DEF MarkRegistered, Recorded, ProvisionInv, CapturedOnce
    <3>2. /\ epoch = EpochAt(r) /\ revision = doc[r]
          /\ epoch # None /\ revision # None
      BY <3>1, RecordedIsNotNone
    <3>3. epoch' = epoch /\ revision' = revision /\ captured' = captured
      BY <2>2 DEF MarkRegistered, external
    <3> QED
      BY <3>1, <3>2, <3>3 DEF Wanted
  <2>3. CASE "connector_registered" \notin transitions /\ ~MarkRegistered(r)
    BY <1>3, <2>3 DEF Invoke, metadata, ReadSource, Record, RejectRecord, Lookup, AskRegistered,
       RequireSlot, Post, PostReplyLost, Recheck, Fail, Again
  <2> QED
    BY <2>1, <2>2, <2>3
<1> QED
  BY <1>1, <1>2, <1>3 DEF CapturedOnce

\* Operators may change and delete connectors, but not what they have been.
LEMMA OutsideCapturedOnce ==
  ASSUME ProvisionInv, Outside
  PROVE  CapturedOnce'
<1> TypeOK /\ CapturedOnce
  BY DEF ProvisionInv
<1>1. UNCHANGED <<metadata, pc, doc, seen>>
  BY DEF Outside, AlterSource, StartTask, EditConnector, LoseSlot
<1>2. /\ \A x \in Epoch : captured[x] \subseteq captured'[x]
      /\ \A x \in Epoch : connector'[x] # None =>
           connector'[x] = connector[x] \/ connector'[x] \in captured'[x]
  <2>1. CASE \E e \in Epoch, capture \in Capture \cup {None} : EditConnector(e, capture)
    BY <2>1, ConfigureRecords DEF EditConnector
  <2>2. CASE ~\E e \in Epoch, capture \in Capture \cup {None} : EditConnector(e, capture)
    BY <2>2 DEF Outside, AlterSource, StartTask, LoseSlot
  <2> QED
    BY <2>1, <2>2
<1>3. ASSUME NEW q \in Run, pc[q] \in {"asking", "requiring", "marking"}
      PROVE  Wanted(q) \in captured'[EpochAt(q)]
  <2>1. EpochAt(q) \in Epoch
    BY <1>3, RecordedIsNotNone DEF Recorded
  <2> QED
    BY <1>2, <1>3, <2>1 DEF CapturedOnce
<1>4. ASSUME "connector_registered" \in transitions
      PROVE  epoch # None /\ revision # None /\ CaptureOf[revision] \in captured'[epoch]
  BY <1>2, <1>4 DEF CapturedOnce, TypeOK
<1>5. \A e \in Epoch : connector'[e] # None => connector'[e] \in captured'[e]
  BY <1>2 DEF CapturedOnce
<1> QED
  BY <1>1, <1>3, <1>4, <1>5 DEF CapturedOnce, metadata, EpochAt, Wanted

-----------------------------------------------------------------------------
(* The theorems.                                                           *)

LEMMA InitProvisionInv == Init => ProvisionInv
<1> SUFFICES ASSUME Init PROVE ProvisionInv
  OBVIOUS
<1>1. TypeOK
  BY InitTypeOK
<1>2. Begun /\ RecordedStays /\ CapturedByRecord /\ CapturedOnce
  BY DEF Init, Begun, RecordedStays, Recorded, CapturedByRecord, CapturedOnce
<1> QED
  BY <1>1, <1>2 DEF ProvisionInv

LEMMA StepProvisionInv == ProvisionInv /\ [Next]_vars => ProvisionInv'
<1> SUFFICES ASSUME ProvisionInv, [Next]_vars PROVE ProvisionInv'
  OBVIOUS
<1>1. ASSUME NEW r \in Run, Invoke(r) PROVE ProvisionInv'
  BY <1>1, InvokeTypeOK, InvokeBegun, InvokeRecordedStays, InvokeCaptured, InvokeCapturedOnce
  DEF ProvisionInv
<1>2. CASE Outside
  BY <1>2, OutsideTypeOK, OutsideBegun, OutsideRecordedStays, OutsideCaptured, OutsideCapturedOnce
  DEF ProvisionInv
<1>3. CASE UNCHANGED vars
  BY <1>3 DEF vars, metadata, external, ProvisionInv, TypeOK, Begun, RecordedStays, Recorded,
              CapturedByRecord, CapturedOnce, Untouched, EpochAt, Wanted
<1> QED
  BY <1>1, <1>2, <1>3, NextSplit

\* The stored document, epoch and manifest, what every running invocation
\* works for, and what Connect captures fit together in every state.
THEOREM ProvisionInvariant == Spec => []ProvisionInv
BY InitProvisionInv, StepProvisionInv, PTL DEF Spec

\* Every variable keeps its type (provision and the tables it writes).
THEOREM ProvisioningTypeCorrect == Spec => []TypeOK
<1>1. ProvisionInv => TypeOK
  BY DEF ProvisionInv
<1> QED
  BY <1>1, ProvisionInvariant, PTL

\* Concurrent and repeated invocations never replace what the first one stored:
\* whoever is past its metadata transaction works for the stored document.
THEOREM FirstDocumentWins == Spec => []RecordedStays
<1>1. ProvisionInv => RecordedStays
  BY DEF ProvisionInv
<1> QED
  BY <1>1, ProvisionInvariant, PTL

\* Until somebody else touches Connect, the connector of a registered epoch is
\* the one its stored document asks for.
THEOREM RegisteredEpochIsCaptured == Spec => []RegisteredIsCaptured
<1>1. ProvisionInv => RegisteredIsCaptured
  BY DEF ProvisionInv, CapturedByRecord, RegisteredIsCaptured, TypeOK
<1> QED
  BY <1>1, ProvisionInvariant, PTL

\* Until somebody else touches Connect, no second epoch of the pipeline is
\* captured, whichever documents race.
THEOREM OnlyOneEpochIsCaptured == Spec => []OneEpochIsCaptured
<1>1. ProvisionInv => OneEpochIsCaptured
  BY DEF ProvisionInv, CapturedByRecord, OneEpochIsCaptured
<1> QED
  BY <1>1, ProvisionInvariant, PTL

\* An epoch is on record as registered only after its connector has run as the
\* stored document asks, whatever operators do to Connect and whichever
\* invocations race, crash or lose a reply: whoever marks it has posted that
\* connector itself or has seen it, on lookup or after a conflict.
THEOREM RegisteredEpochWasCaptured == Spec => []RegisteredWasCaptured
<1>1. ProvisionInv => RegisteredWasCaptured
  BY DEF ProvisionInv, CapturedOnce, RegisteredWasCaptured
<1> QED
  BY <1>1, ProvisionInvariant, PTL

=============================================================================
