--------------------------- MODULE Normalization ---------------------------
(***************************************************************************)
(* What becomes of one Kafka record: normalize_record                      *)
(* (src/updatis/normalization/normalize.py) with the source-schema         *)
(* manifest it is checked against, and the stage of its result             *)
(* (src/updatis/intake/repository.py), also when the record is delivered   *)
(* again.                                                                  *)
(*                                                                         *)
(* A record is what the checks tell apart.  It starts as a change Debezium *)
(* emits and deviates from it in up to MaxDeviations places.               *)
(***************************************************************************)
EXTENDS Integers, Sequences, FiniteSetsExt

CONSTANTS
  Manifests,      \* sequences of columns that provisioning may have stored
  Null,           \* a row that is absent
  Foreign,        \* a row or key with other columns, or a row that is no object
  NoObject,       \* a key payload that is no object
  MaxDeviations   \* bound: places in which a record differs from a valid one

\* A JSON value is classed by what it is to its column.  Of the strings, literal is
\* an ordinary value of its type; infinity PostgreSQL's name of one that is not
\* finite; spelled another name of one, which only Decimal knows; nul and surrogate
\* hold a NUL or half a surrogate pair, also escaped; beyond exceeds what comes
\* after the parser: the digits of an exponent any memory, the UTC of a timestamp
\* the years 1 to 9999, a number or the depth of a JSON text jsonb; deep is a JSON
\* text nested too deep for Python; text any string the type does not know.
Strings == {"literal", "infinity", "spelled", "nul", "surrogate", "beyond", "deep", "text"}

\* wide is an integer outside bigint that is no UUID's 32 digits, huge one no
\* double can hold, nonfinite a bare NaN or Infinity.
Cell == Strings \cup {"null", "boolean", "integer", "wide", "huge", "float", "nonfinite", "object"}

\* The cells _convert takes, by the types provisioning supports.  Dates and times
\* may be any string but an infinity, those with a time zone are looked at for one
\* or parsed, and json.loads takes the names of numbers that are not finite.
Accepted ==
  [boolean |-> {"boolean"}, integer |-> {"integer"},
   floating |-> {"integer", "wide", "float"}, numeric |-> {"literal", "spelled"},
   text |-> Strings, uuid |-> {"literal"}, bytea |-> {"literal"},
   local |-> Strings \ {"infinity"}, timetz |-> {"literal", "nul", "surrogate"},
   timestamptz |-> {"literal"},
   json |-> {"literal", "infinity", "nul", "surrogate", "beyond"}]

\* The cells whose conversion raises what nobody catches: an OverflowError of
\* math.isfinite or astimezone, a MemoryError of format.
Escaping == [floating |-> {"huge"}, numeric |-> {"beyond"}, timestamptz |-> {"beyond"}]

\* The cells of an envelope jsonb refuses, and those that are no UTF-8.
JsonbRefuses ==
  [type \in DOMAIN Accepted |->
     {"nul"} \cup (IF type = "json" THEN {"infinity", "beyond"} ELSE {})]
NoUtf8 == [type \in DOMAIN Accepted |-> {"surrogate"}]

\* A SourceColumn as provisioning stores it: ordinal is its pg_attribute.attnum,
\* which leaves out the numbers of columns that were dropped, and key its position
\* in the key, 0 outside it.
Column == [type : DOMAIN Accepted, nullable : BOOLEAN, ordinal : Nat \ {0}, key : 0..4]

ASSUME ConstantsAssumption ==
  /\ Manifests \subseteq Seq(Column)
  /\ Cardinality({Null, Foreign, NoObject}) = 3
  /\ MaxDeviations \in Nat

\* provision stores the columns by attnum, and a pipeline names its key columns.
ASSUME ManifestsAssumption ==
  \A m \in Manifests :
    /\ \A i, j \in DOMAIN m : i < j => m[i].ordinal < m[j].ordinal
    /\ \E i \in DOMAIN m : m[i].key # 0

\* What stands for an odd row or key is not a row or key of cells.
ASSUME OddRowsAssumption ==
  \A columns \in {DOMAIN m : m \in Manifests} \cup SUBSET (1..4) :
    \A odd \in {Null, Foreign, NoObject} : odd \notin [columns -> Cell]

VARIABLES
  manifest,
  record,
  deviations,
  pc,           \* "arrived" or "classified"
  result,       \* the NormalizedRecord: [classification, kind]
  durable,      \* the classification of its ingest_records row, or "none"
  ended         \* what ended the worker at this record last, or "none"

vars == <<manifest, record, deviations, pc, result, durable, ended>>

KeyPositions == {manifest[i].key : i \in DOMAIN manifest} \ {0}
KeyColumn(position) == CHOOSE i \in DOMAIN manifest : manifest[i].key = position

\* A table lists cells by the types of their columns.
Lists(table, column, cell) == column.type \in DOMAIN table /\ cell \in table[column.type]

\* Some cell of the record's rows or key is in the table.
Holds(table) ==
  \/ \E row \in {record.before, record.after} \ {Null, Foreign} :
       \E i \in DOMAIN manifest : Lists(table, manifest[i], row[i])
  \/ /\ record.key \notin {Foreign, NoObject}
     /\ \E p \in KeyPositions : Lists(table, manifest[KeyColumn(p)], record.key[p])

-----------------------------------------------------------------------------
(* The checks.  Each names what it raises; the first that fails decides.   *)

Refused(condition, fault) == IF condition THEN fault ELSE "fine"

\* The first of faults in the order of their indices.
FirstFault(faults) ==
  LET failed == {i \in DOMAIN faults : faults[i] # "fine"} IN
  IF failed = {} THEN "fine" ELSE faults[Min(failed)]

\* _convert: everything else it dislikes is a ValueError, but for the RecursionError
\* of json.loads, which is a RuntimeError.
Conversion(column, cell) ==
  IF Lists(Escaping, column, cell) THEN "escapes"
  ELSE IF column.type = "json" /\ cell = "deep" THEN "unsupported"
  ELSE Refused(IF cell = "null" THEN ~column.nullable ELSE cell \notin Accepted[column.type],
               "malformed")

\* _normalize_row
RowFault(row) ==
  IF row = Null THEN "fine" ELSE IF row = Foreign THEN "malformed"
  ELSE FirstFault([i \in DOMAIN manifest |-> Conversion(manifest[i], row[i])])

Decoding(document) ==
  IF document = "nested" THEN "unsupported" ELSE Refused(document = "undecodable", "malformed")

\* Mutant: only an object is expected.
AccessUnchecked(schema) == Refused(schema \in {"no object", "no list"}, "escapes")

\* A schema is asked for its fields: "no object" has no get, "no list" is noticed,
\* and an entry that is no object fails in _field_map or verify_fields.
Access(schema) ==
  IF schema = "no object" THEN "escapes" ELSE Refused(schema = "no list", "malformed")
Entries(schema) == Refused(schema = "scalar entry", "escapes")
Compared(schema) == Refused(schema = "different", "malformed")

\* An operation that is an array or object raises the TypeError of "not in".
Operation ==
  IF record.op = "unhashable" THEN "malformed" ELSE Refused(record.op = "other", "unsupported")

\* verify_fields counts the emitted fields from one.
Numbered == Refused(\E i \in DOMAIN manifest : manifest[i].ordinal # i, "malformed")

\* The row schema that is compared with the manifest.
RowSchema == IF record.op = "d" /\ record.after = Null
               THEN record.beforeSchema ELSE record.afterSchema

\* Mutant: the before row of a create is not looked at.
PresenceOfAfter ==
  Refused(\/ record.op \in {"r", "c", "u"} /\ record.after = Null
          \/ record.op = "d" /\ record.after # Null, "malformed")

\* Which rows an operation must and must not have.
Presence ==
  Refused(\/ record.op \in {"r", "c", "u"} /\ record.after = Null
          \/ record.op = "c" /\ record.before # Null
          \/ record.op = "d" /\ record.after # Null, "malformed")

\* Key columns are converted in key order, and none may be null; a key schema that
\* is different is so at the first of them.
KeyFault ==
  IF record.key \in {Foreign, NoObject} THEN "malformed" ELSE
  FirstFault([p \in KeyPositions |->
    IF record.key[p] = "null" THEN "malformed"
    ELSE Conversion(manifest[KeyColumn(p)], record.key[p])])

\* _canonical_json(...).encode: a UnicodeEncodeError is a ValueError.
Encoding == Refused(Holds(NoUtf8) \/ record.metadata = "surrogate", "malformed")

Checks ==
  <<Decoding(record.keyDocument),
    Decoding(record.document),
    Refused("unwrapped" \in {record.keyDocument, record.document}, "malformed"),
    Refused(record.key = NoObject \/ record.payload = "no object", "malformed"),
    Access(record.schema),
    Operation,
    Refused(record.source = "other", "malformed"),
    Entries(record.schema),
    Entries(RowSchema),
    Compared(RowSchema),
    Numbered,
    RowFault(record.before),
    RowFault(record.after),
    Presence,
    Access(record.keySchema),
    Entries(record.keySchema),
    Refused(Cardinality(KeyPositions) \notin 1..4 \/ record.key = Foreign, "malformed"),
    Compared(record.keySchema),
    KeyFault,
    Refused(record.timestamp = "invalid", "malformed"),
    Refused(record.timestamp = "overflow", "escapes"),
    Encoding>>

Quarantine(kind) == [classification |-> "quarantine", kind |-> kind]
Plain(classification) == [classification |-> classification, kind |-> "none"]

\* The envelope carries the time of its ingestion, whose text is seven bytes
\* shorter when it falls on a whole second.
Fits(whole) == record.size \in IF whole THEN {"small", "edge"} ELSE {"small"}

\* normalize_record at some time; "escapes" is an exception it does not catch.
Normalized(whole) ==
  LET fault == FirstFault(Checks) IN
  IF record.raw = "large" THEN Quarantine("oversized")
  ELSE IF record.value = "null" THEN Plain("control")
  ELSE IF fault = "escapes" THEN Plain("escapes")
  ELSE IF fault # "fine" THEN Quarantine(fault)
  ELSE IF Fits(whole) THEN Plain("event")
  ELSE Quarantine("oversized")

-----------------------------------------------------------------------------
(* Records.                                                                *)

\* An ordinary value of a column.
Ordinary(i) ==
  LET type == manifest[i].type IN
  IF type \in {"boolean", "integer"} THEN type
  ELSE IF type = "floating" THEN "float" ELSE "literal"

Row == [i \in DOMAIN manifest |-> Ordinary(i)]

Change(op) ==
  [raw |-> "small", value |-> "bytes", keyDocument |-> "wrapped", document |-> "wrapped",
   payload |-> "object", schema |-> "fields", beforeSchema |-> "matching",
   afterSchema |-> "matching", keySchema |-> "matching", op |-> op, source |-> "manifest",
   before |-> IF op \in {"u", "d"} THEN Row ELSE Null,
   after |-> IF op = "d" THEN Null ELSE Row,
   key |-> [p \in KeyPositions |-> Ordinary(KeyColumn(p))],
   timestamp |-> "fine", metadata |-> "fine", size |-> "small"]

\* The other values of every field.  A timestamp overflows if no float or time_t
\* holds it, and is invalid after the year 9999; metadata are the values that are
\* copied unseen: the source's db, txId and lsn, and the connector's ts_ms.
Alternatives ==
  [raw |-> {"large"}, value |-> {"null"},
   keyDocument |-> {"unwrapped", "undecodable", "nested"},
   document |-> {"unwrapped", "undecodable", "nested"},
   payload |-> {"no object"}, schema |-> {"no object", "no list", "scalar entry"},
   beforeSchema |-> {"different", "scalar entry"}, afterSchema |-> {"different", "scalar entry"},
   keySchema |-> {"no object", "no list", "scalar entry", "different"},
   op |-> {"r", "c", "u", "d", "other", "unhashable"}, source |-> {"other"},
   before |-> {Null, Foreign, Row}, after |-> {Null, Foreign, Row},
   key |-> {Foreign, NoObject},
   timestamp |-> {"invalid", "overflow"}, metadata |-> {"nul", "nonfinite", "surrogate"},
   size |-> {"edge", "large"}]

Init ==
  /\ manifest \in Manifests
  /\ \E op \in {"r", "c", "u", "d"} : record = Change(op)
  /\ deviations = 0
  /\ pc = "arrived"
  /\ result = Plain("none")
  /\ durable = "none"
  /\ ended = "none"

Deviates(changed) ==
  /\ pc = "arrived"
  /\ result = Plain("none")
  /\ deviations < MaxDeviations
  /\ deviations' = deviations + 1
  /\ record' = changed
  /\ UNCHANGED <<manifest, pc, result, durable, ended>>

Deviate(field) ==
  \E value \in Alternatives[field] : Deviates([record EXCEPT ![field] = value])

DeviateCell(field) ==
  /\ record[field] \notin {Null, Foreign, NoObject}
  /\ \E i \in DOMAIN record[field], cell \in Cell :
       Deviates([record EXCEPT ![field][i] = cell])

-----------------------------------------------------------------------------
(* The worker.                                                             *)

Classify(whole) ==
  /\ pc = "arrived"
  /\ Normalized(whole).classification # "escapes"
  /\ result' = Normalized(whole)
  /\ pc' = "classified"
  /\ UNCHANGED <<manifest, record, deviations, durable, ended>>

\* run_consumer: "Kafka record could not be durably classified".
Escape ==
  /\ pc = "arrived"
  /\ Normalized(TRUE).classification = "escapes"
  /\ result' = Normalized(TRUE)
  /\ ended' = "unclassified"
  /\ UNCHANGED <<manifest, record, deviations, pc, durable>>

\* The envelope of an event is stored as jsonb.
Storable ==
  result.classification = "event" =>
    ~Holds(JsonbRefuses) /\ record.metadata \notin {"nul", "nonfinite"}

Stage ==
  /\ pc = "classified"
  /\ durable = "none"
  /\ pc' = "arrived"
  /\ durable' = IF Storable THEN result.classification ELSE "none"
  /\ ended' = IF Storable THEN "none" ELSE "unstorable"
  /\ UNCHANGED <<manifest, record, deviations, result>>

\* A redelivered record has the raw hash of its row; its classification decides.
StageAgain ==
  /\ pc = "classified"
  /\ durable # "none"
  /\ pc' = "arrived"
  /\ ended' = IF durable = result.classification THEN "none" ELSE "conflict"
  /\ UNCHANGED <<manifest, record, deviations, result, durable>>

Next ==
  \/ \E field \in DOMAIN Alternatives : Deviate(field)
  \/ \E field \in {"before", "after", "key"} : DeviateCell(field)
  \/ \E whole \in BOOLEAN : Classify(whole)
  \/ Escape
  \/ Stage
  \/ StageAgain

Spec == Init /\ [][Next]_vars

-----------------------------------------------------------------------------
(* Properties.                                                             *)

\* What the source sends for a column: also dates and numbers that are not finite,
\* timestamps outside the years 1 to 9999, and of json, which it checks for its
\* syntax only, escaped NULs and surrogates and numbers of any size.
Sends ==
  [boolean |-> {"boolean"}, integer |-> {"integer"},
   floating |-> {"float", "infinity", "nonfinite"}, numeric |-> {"literal", "infinity"},
   text |-> Strings \ {"nul", "surrogate"}, uuid |-> {"literal"}, bytea |-> {"literal"},
   local |-> {"literal", "infinity"}, timetz |-> {"literal"},
   timestamptz |-> {"literal", "infinity", "text"},
   json |-> {"literal", "nul", "surrogate", "beyond", "deep", "text"}]

Sent(column) == Sends[column.type] \cup {cell \in {"null"} : column.nullable}

SentRow(row) ==
  row \notin {Null, Foreign} /\ \A i \in DOMAIN manifest : row[i] \in Sent(manifest[i])

\* The record is a change as the source sends it, and not too large.
AsSent ==
  /\ record.op \in {"r", "c", "u", "d"}
  /\ record = [Change(record.op) EXCEPT
                 !.before = record.before, !.after = record.after, !.key = record.key]
  /\ record.before # Null => record.op \in {"u", "d"} /\ SentRow(record.before)
  /\ IF record.op = "d" THEN record.after = Null ELSE SentRow(record.after)
  /\ record.key \notin {Foreign, NoObject}
  /\ \A p \in KeyPositions : record.key[p] \in Sent(manifest[KeyColumn(p)]) \ {"null"}

\* The sent cells that have no envelope: values that are not finite, years Python
\* does not know, and JSON that it does not read or that is no UTF-8.
Quarantined ==
  [floating |-> {"infinity", "nonfinite"}, numeric |-> {"infinity"},
   local |-> {"infinity"}, timestamptz |-> {"infinity", "text"},
   json |-> {"surrogate", "deep", "text"}]

\* The rows of an event are those its operation has, and hold values their
\* columns can: no null where the source has none, no name PostgreSQL has for what
\* is not finite but as text, nothing that is no UTF-8, and no JSON of another type.
Conforming ==
  /\ record.op \in {"r", "c", "u", "d"}
  /\ record.source = "manifest"
  /\ record.op # "d" <=> record.after # Null
  /\ record.op = "c" => record.before = Null
  /\ \A row \in {record.before, record.after} \ {Null} :
       /\ row # Foreign
       /\ \A i \in DOMAIN row :
            /\ row[i] \notin {"object", "nonfinite", "huge", "surrogate"}
            /\ row[i] = "null" => manifest[i].nullable
            /\ row[i] = "infinity" => manifest[i].type = "text"
            /\ row[i] \in {"boolean", "integer", "wide", "float"} =>
                 manifest[i].type \in {"boolean", "integer", "floating"}

\* What is stored of a record is justified by the record: an event is a change
\* of the manifest's table, a control a tombstone, and a discontinuity has the kind
\* of its cause; a change as the source sends it is an event, unless its table has
\* lost a column before it was provisioned or it holds one of the quarantined cells.
OutcomeIsJustified ==
  /\ durable = "event" => Conforming
  /\ durable = "control" => record.value = "null" /\ record.raw = "small"
  /\ result.kind = "oversized" => record.raw = "large" \/ record.size # "small"
  /\ result.kind = "unsupported" =>
       \/ record.op = "other"
       \/ "nested" \in {record.keyDocument, record.document}
       \/ Holds([json |-> {"deep"}])
  /\ durable # "none" /\ AsSent =>
       \/ durable = "event"
       \/ \E i \in DOMAIN manifest : manifest[i].ordinal > Len(manifest)
       \/ Holds(Quarantined)

\* The cells that end the worker: their conversion raises what nobody catches, or
\* jsonb refuses what became of them.
PoisonCells ==
  [floating |-> {"huge"}, numeric |-> {"beyond"}, timestamptz |-> {"beyond"},
   text |-> {"nul"}, local |-> {"nul"}, timetz |-> {"nul"},
   json |-> {"nul", "infinity", "beyond"}]

\* The faults that keep a record from ever being staged, or from being staged
\* again, and with it its partition.
Poison ==
  \/ {record.schema, record.keySchema, record.beforeSchema, record.afterSchema}
       \cap {"no object", "scalar entry"} # {}
  \/ record.timestamp = "overflow"
  \/ record.metadata \in {"nul", "nonfinite"}
  \/ record.size = "edge"
  \/ Holds(PoisonCells)

\* The worker ends at a record only for one of these faults; whatever else is
\* wrong with a record is quarantined, and a redelivered record is classified as
\* it was, although the clock is part of its envelope.
OnlyPoisonEndsTheWorker == ended # "none" => Poison

-----------------------------------------------------------------------------
(* What the design says and the code does not do.                          *)

\* "Snapshot/create/update/delete normalize into valid v1 envelopes": what the
\* source sends of a provisioned table becomes an event.
ChangesBecomeEvents == durable # "none" /\ AsSent => durable = "event"
=============================================================================
