------------------------ MODULE NormalizationProofs ------------------------
(***************************************************************************)
(* Proofs about Normalization, for any manifests and any number of         *)
(* deviations.                                                             *)
(*                                                                         *)
(* Most of it is about one classification: what the first of the checks    *)
(* that fails says of the record, that a record without a fault is a       *)
(* change of the manifest's table, and that a change as the source sends   *)
(* it has no fault but for the cells that are named.  The invariant carries this over from the time of the  *)
(* classification to the rows that are stored, and stored again.           *)
(***************************************************************************)
EXTENDS Normalization, FiniteSetTheorems, TLAPS

Faults == {"fine", "malformed", "unsupported", "escapes"}

RowOf(m) == [DOMAIN m -> Cell]

\* What any field may hold once fields and cells have deviated.
Possible ==
  [raw |-> {"small", "large"}, value |-> {"bytes", "null"},
   keyDocument |-> {"wrapped", "unwrapped", "undecodable", "nested"},
   document |-> {"wrapped", "unwrapped", "undecodable", "nested"},
   payload |-> {"object", "no object"},
   schema |-> {"fields", "no object", "no list", "scalar entry"},
   beforeSchema |-> {"matching", "different", "scalar entry"},
   afterSchema |-> {"matching", "different", "scalar entry"},
   keySchema |-> {"matching", "no object", "no list", "scalar entry", "different"},
   op |-> {"r", "c", "u", "d", "other", "unhashable"}, source |-> {"manifest", "other"},
   before |-> {Null, Foreign} \cup RowOf(manifest),
   after |-> {Null, Foreign} \cup RowOf(manifest),
   key |-> {Foreign, NoObject} \cup [KeyPositions -> Cell],
   timestamp |-> {"fine", "invalid", "overflow"},
   metadata |-> {"fine", "nul", "nonfinite", "surrogate"}, size |-> {"small", "edge", "large"}]

RecordOK ==
  /\ manifest \in Manifests
  /\ DOMAIN record = DOMAIN Possible
  /\ \A field \in DOMAIN Possible : record[field] \in Possible[field]

LEMMA PossibleRecord ==
  ASSUME RecordOK
  PROVE  /\ manifest \in Manifests
         /\ record.raw \in {"small", "large"}
         /\ record.op \in {"r", "c", "u", "d", "other", "unhashable"}
         /\ record.source \in {"manifest", "other"}
         /\ record.before \in {Null, Foreign} \cup RowOf(manifest)
         /\ record.after \in {Null, Foreign} \cup RowOf(manifest)
         /\ record.key \in {Foreign, NoObject} \cup [KeyPositions -> Cell]
         /\ record.size \in {"small", "edge", "large"}
BY DEF RecordOK, Possible

-----------------------------------------------------------------------------
(* The first fault.                                                        *)

\* A set of numbers that is not empty has a least element.
LEMMA LeastIsThere ==
  ASSUME NEW S, S \subseteq Nat, S # {}
  PROVE  /\ Min(S) \in S
         /\ \A n \in S : Min(S) <= n
<1> DEFINE Less == {p \in Nat \X Nat : p[1] < p[2]}
<1>1. Less = OpToRel(<, Nat)
  BY SMT DEF OpToRel
<1>2. IsWellFoundedOn(Less, Nat)
  BY <1>1, NatLessThanWellFounded
<1>3. \E m \in S : \A n \in S : ~(<<n, m>> \in Less)
  <2> HIDE DEF Less
  <2> QED
    BY <1>2, WFMin, Zenon
<1> PICK m \in S : \A n \in S : ~(<<n, m>> \in Less)
  BY <1>3
<1>4. ASSUME NEW n \in S PROVE m <= n
  <2>1. n \in Nat /\ m \in Nat
    OBVIOUS
  <2>2. <<n, m>> \in Less <=> n < m
    BY <2>1, SMT
  <2>3. ~(<<n, m>> \in Less)
    OBVIOUS
  <2> QED
    BY <2>1, <2>2, <2>3
<1> QED
  BY <1>4 DEF Min

\* FirstFault is one of the faults there are, and "fine" only if there are none.
LEMMA FirstFaultIsOne ==
  ASSUME NEW f, DOMAIN f \subseteq Nat
  PROVE  \/ FirstFault(f) = "fine" /\ \A i \in DOMAIN f : f[i] = "fine"
         \/ FirstFault(f) # "fine" /\ \E i \in DOMAIN f : f[i] = FirstFault(f)
<1> DEFINE failed == {i \in DOMAIN f : f[i] # "fine"}
<1>1. CASE failed = {}
  BY <1>1 DEF FirstFault
<1>2. CASE failed # {}
  <2>1. Min(failed) \in failed
    BY <1>2, LeastIsThere
  <2>2. FirstFault(f) = f[Min(failed)]
    BY <1>2 DEF FirstFault
  <2> QED
    BY <2>1, <2>2
<1> QED
  BY <1>1, <1>2

LEMMA ManifestIsColumns ==
  ASSUME manifest \in Manifests
  PROVE  /\ DOMAIN manifest = 1..Len(manifest)
         /\ Len(manifest) \in Nat
         /\ \A i \in DOMAIN manifest : manifest[i] \in Column
         /\ KeyPositions \subseteq 1..4
<1>1. manifest \in Seq(Column)
  BY ConstantsAssumption
<1>2. \A i \in DOMAIN manifest : manifest[i] \in Column
  BY <1>1
<1>3. \A i \in DOMAIN manifest : manifest[i].key \in 0..4
  BY <1>2 DEF Column
<1> QED
  BY <1>1, <1>2, <1>3 DEF KeyPositions

LEMMA KeyColumnIsThere ==
  ASSUME NEW p \in KeyPositions
  PROVE  KeyColumn(p) \in DOMAIN manifest
BY DEF KeyPositions, KeyColumn

-----------------------------------------------------------------------------
(* What each check raises, and what a record without a fault is like.      *)

\* A cell of a row or of the key that is listed is held by the record.
LEMMA RowHolds ==
  ASSUME NEW table, NEW row \in {record.before, record.after}, row \notin {Null, Foreign},
         NEW i \in DOMAIN manifest, Lists(table, manifest[i], row[i])
  PROVE  Holds(table)
BY DEF Holds

LEMMA KeyHolds ==
  ASSUME NEW table, record.key \notin {Foreign, NoObject},
         NEW p \in KeyPositions, Lists(table, manifest[KeyColumn(p)], record.key[p])
  PROVE  Holds(table)
BY DEF Holds

Nested == [json |-> {"deep"}]

LEMMA EscapingIsPoison ==
  ASSUME NEW column \in Column, NEW cell, Lists(Escaping, column, cell)
  PROVE  Lists(PoisonCells, column, cell)
<1>1. \/ column.type = "floating" /\ cell = "huge"
      \/ column.type \in {"numeric", "timestamptz"} /\ cell = "beyond"
  BY DEF Lists, Escaping
<1> QED
  BY <1>1 DEF Lists, PoisonCells

LEMMA ConversionFaults ==
  ASSUME NEW column \in Column, NEW cell \in Cell
  PROVE  /\ Conversion(column, cell) \in Faults
         /\ Conversion(column, cell) = "escapes" => Lists(PoisonCells, column, cell)
         /\ Conversion(column, cell) = "unsupported" => Lists(Nested, column, cell)
         /\ Conversion(column, cell) = "fine" =>
              /\ cell = "null" => column.nullable
              /\ cell = "null" \/ cell \in Accepted[column.type]
<1>1. Conversion(column, cell) = "escapes" => Lists(Escaping, column, cell)
  BY DEF Conversion, Refused
<1>2. Conversion(column, cell) = "unsupported" => column.type = "json" /\ cell = "deep"
  BY DEF Conversion, Refused
<1>3. Conversion(column, cell) \in Faults
  BY DEF Conversion, Refused, Faults
<1>4. Conversion(column, cell) = "fine" =>
        /\ cell = "null" => column.nullable
        /\ cell = "null" \/ cell \in Accepted[column.type]
  BY DEF Conversion, Refused
<1>5. column.type = "json" /\ cell = "deep" => Lists(Nested, column, cell)
  BY DEF Lists, Nested
<1> QED
  BY <1>1, <1>2, <1>3, <1>4, <1>5, EscapingIsPoison

LEMMA AcceptedCells ==
  ASSUME NEW type \in DOMAIN Accepted, NEW cell \in Accepted[type]
  PROVE  /\ cell \notin {"null", "object", "nonfinite", "huge"}
         /\ cell = "infinity" => type \in {"text", "json"}
         /\ cell \in {"boolean", "integer", "wide", "float"} =>
              type \in {"boolean", "integer", "floating"}
         /\ cell = "nul" => type \in {"text", "local", "timetz", "json"}
BY DEF Accepted, Strings

\* Of the cells that are converted, those jsonb refuses are among the named ones.
LEMMA RefusedIsPoison ==
  ASSUME NEW column \in Column, NEW cell \in Cell,
         Conversion(column, cell) = "fine", Lists(JsonbRefuses, column, cell)
  PROVE  Lists(PoisonCells, column, cell)
<1> DEFINE type == column.type
<1>1. type \in DOMAIN Accepted
  BY DEF Column
<1>2. cell \in {"nul"} \cup (IF type = "json" THEN {"infinity", "beyond"} ELSE {})
  BY DEF Lists, JsonbRefuses
<1>3. cell \in Accepted[type]
  BY <1>2, ConversionFaults
<1> HIDE DEF type
<1>4. \/ cell = "nul" /\ type \in {"text", "local", "timetz", "json"}
      \/ type = "json" /\ cell \in {"infinity", "beyond"}
  BY <1>1, <1>2, <1>3, AcceptedCells
<1>5. type \in DOMAIN PoisonCells /\ cell \in PoisonCells[type]
  BY <1>4 DEF PoisonCells
<1> QED
  BY <1>5 DEF Lists, type

LEMMA RowFaults ==
  ASSUME manifest \in Manifests,
         NEW row \in {Null, Foreign} \cup RowOf(manifest)
  PROVE  /\ RowFault(row) \in Faults
         /\ RowFault(row) \in {"escapes", "unsupported"} =>
              /\ row \notin {Null, Foreign}
              /\ \E i \in DOMAIN manifest :
                   /\ manifest[i] \in Column /\ row[i] \in Cell
                   /\ Conversion(manifest[i], row[i]) = RowFault(row)
         /\ RowFault(row) = "fine" /\ row # Null =>
              /\ row \in RowOf(manifest)
              /\ \A i \in DOMAIN manifest : Conversion(manifest[i], row[i]) = "fine"
<1>1. CASE row = Null \/ row = Foreign
  BY <1>1 DEF RowFault, Faults
<1>2. CASE row # Null /\ row # Foreign
  <2> DEFINE f == [i \in DOMAIN manifest |-> Conversion(manifest[i], row[i])]
  <2>1. row \in RowOf(manifest)
    BY <1>2
  <2>2. \A i \in DOMAIN manifest : manifest[i] \in Column /\ row[i] \in Cell
    BY <2>1, ManifestIsColumns DEF RowOf
  <2>3. RowFault(row) = FirstFault(f)
    BY <1>2 DEF RowFault
  <2>4. DOMAIN f = DOMAIN manifest /\ DOMAIN f \subseteq Nat
    BY ManifestIsColumns
  <2>5. \A i \in DOMAIN manifest : f[i] = Conversion(manifest[i], row[i])
    OBVIOUS
  <2>6. \A i \in DOMAIN manifest : f[i] \in Faults
    BY <2>2, <2>5, ConversionFaults
  <2>7. \/ FirstFault(f) = "fine" /\ \A i \in DOMAIN f : f[i] = "fine"
        \/ FirstFault(f) # "fine" /\ \E i \in DOMAIN f : f[i] = FirstFault(f)
    BY <2>4, FirstFaultIsOne
  <2> HIDE DEF f
  <2>8. CASE FirstFault(f) = "fine" /\ \A i \in DOMAIN f : f[i] = "fine"
    BY <2>8, <2>1, <2>3, <2>4, <2>5 DEF Faults
  <2>9. CASE FirstFault(f) # "fine" /\ \E i \in DOMAIN f : f[i] = FirstFault(f)
    BY <2>9, <1>2, <2>2, <2>3, <2>4, <2>5, <2>6
  <2> QED
    BY <2>7, <2>8, <2>9
<1> QED
  BY <1>1, <1>2

LEMMA KeyFaults ==
  ASSUME RecordOK
  PROVE  /\ KeyFault \in Faults
         /\ KeyFault \in {"escapes", "unsupported"} =>
              /\ record.key \notin {Foreign, NoObject}
              /\ \E p \in KeyPositions :
                   /\ manifest[KeyColumn(p)] \in Column /\ record.key[p] \in Cell
                   /\ Conversion(manifest[KeyColumn(p)], record.key[p]) = KeyFault
         /\ KeyFault = "fine" =>
              /\ record.key \in [KeyPositions -> Cell]
              /\ \A p \in KeyPositions :
                   /\ manifest[KeyColumn(p)] \in Column
                   /\ Conversion(manifest[KeyColumn(p)], record.key[p]) = "fine"
<1> DEFINE key == record.key
<1>0. manifest \in Manifests /\ key \in {Foreign, NoObject} \cup [KeyPositions -> Cell]
  BY PossibleRecord
<1>1. CASE key \in {Foreign, NoObject}
  BY <1>1 DEF KeyFault, Faults
<1>2. CASE key \notin {Foreign, NoObject}
  <2> DEFINE f == [p \in KeyPositions |->
                     IF key[p] = "null" THEN "malformed"
                     ELSE Conversion(manifest[KeyColumn(p)], key[p])]
  <2>1. key \in [KeyPositions -> Cell]
    BY <1>0, <1>2
  <2>2. \A p \in KeyPositions : manifest[KeyColumn(p)] \in Column /\ key[p] \in Cell
    BY <1>0, <2>1, KeyColumnIsThere, ManifestIsColumns
  <2>3. KeyFault = FirstFault(f)
    BY <1>2 DEF KeyFault
  <2>4. DOMAIN f = KeyPositions /\ DOMAIN f \subseteq Nat
    BY <1>0, ManifestIsColumns
  <2>5. \A p \in KeyPositions :
          f[p] = "malformed" \/ f[p] = Conversion(manifest[KeyColumn(p)], key[p])
    OBVIOUS
  <2>6. \A p \in KeyPositions : f[p] \in Faults
    BY <2>2, <2>5, ConversionFaults DEF Faults
  <2>7. \/ FirstFault(f) = "fine" /\ \A i \in DOMAIN f : f[i] = "fine"
        \/ FirstFault(f) # "fine" /\ \E i \in DOMAIN f : f[i] = FirstFault(f)
    BY <2>4, FirstFaultIsOne
  <2> HIDE DEF f
  <2>8. CASE FirstFault(f) = "fine" /\ \A i \in DOMAIN f : f[i] = "fine"
    BY <2>8, <2>1, <2>2, <2>3, <2>4, <2>5 DEF Faults
  <2>9. CASE FirstFault(f) # "fine" /\ \E i \in DOMAIN f : f[i] = FirstFault(f)
    <3>1. PICK p \in KeyPositions : f[p] = FirstFault(f)
      BY <2>4, <2>9
    <3>2. FirstFault(f) \in Faults /\ FirstFault(f) # "fine"
      BY <2>6, <2>9, <3>1
    <3>3. FirstFault(f) = "malformed" \/ FirstFault(f) = Conversion(manifest[KeyColumn(p)], key[p])
      BY <2>5, <3>1
    <3> QED
      BY <1>2, <2>2, <2>3, <3>2, <3>3
  <2> QED
    BY <2>7, <2>8, <2>9
<1> QED
  BY <1>1, <1>2

UnsupportedCause ==
  \/ record.op = "other"
  \/ "nested" \in {record.keyDocument, record.document}
  \/ Holds([json |-> {"deep"}])

\* What a check may raise, and what is then the matter with the record.
Explained(fault) ==
  /\ fault \in Faults
  /\ fault = "escapes" => Poison
  /\ fault = "unsupported" => UnsupportedCause

LEMMA PlainChecks ==
  ASSUME RecordOK
  PROVE  /\ Explained(Decoding(record.keyDocument))
         /\ Explained(Decoding(record.document))
         /\ Explained(Access(record.schema))
         /\ Explained(Access(record.keySchema))
         /\ Explained(Entries(record.schema))
         /\ Explained(Entries(record.keySchema))
         /\ Explained(Entries(RowSchema))
         /\ Explained(Compared(RowSchema))
         /\ Explained(Compared(record.keySchema))
         /\ Explained(Numbered)
         /\ Explained(Presence)
         /\ Explained(Operation)
         /\ Explained(Refused(record.timestamp = "overflow", "escapes"))
         /\ Explained("fine") /\ Explained("malformed")
<1>1. Explained(Decoding(record.keyDocument)) /\ Explained(Decoding(record.document))
  BY DEF Explained, Decoding, Refused, UnsupportedCause, Faults
<1>2. Explained(Access(record.schema)) /\ Explained(Access(record.keySchema))
  BY DEF Explained, Access, Refused, Poison, Faults
<1>3. /\ Explained(Entries(record.schema))
      /\ Explained(Entries(record.keySchema))
      /\ Explained(Entries(RowSchema))
  BY DEF Explained, Entries, RowSchema, Refused, Poison, Faults
<1>4. /\ Explained(Compared(RowSchema))
      /\ Explained(Compared(record.keySchema))
      /\ Explained(Numbered)
      /\ Explained(Presence)
  BY DEF Explained, Compared, Numbered, Presence, Refused, Faults
<1>5. /\ Explained(Operation)
      /\ Explained(Refused(record.timestamp = "overflow", "escapes"))
      /\ Explained("fine") /\ Explained("malformed")
  BY DEF Explained, Operation, UnsupportedCause, Refused, Poison, Faults
<1> QED
  BY <1>1, <1>2, <1>3, <1>4, <1>5

LEMMA CellChecks ==
  ASSUME RecordOK
  PROVE  /\ Explained(RowFault(record.before))
         /\ Explained(RowFault(record.after))
         /\ Explained(KeyFault)
<1>1. /\ manifest \in Manifests
      /\ record.before \in {Null, Foreign} \cup RowOf(manifest)
      /\ record.after \in {Null, Foreign} \cup RowOf(manifest)
  BY PossibleRecord
<1>2. (Holds(PoisonCells) => Poison) /\ (Holds(Nested) => UnsupportedCause)
  BY DEF Poison, UnsupportedCause, Nested
<1>3. ASSUME NEW row \in {record.before, record.after}
      PROVE  Explained(RowFault(row))
  <2>1. row \in {Null, Foreign} \cup RowOf(manifest)
    BY <1>1
  <2>2. RowFault(row) \in Faults
    BY <1>1, <2>1, RowFaults
  <2>3. ASSUME RowFault(row) \in {"escapes", "unsupported"}
        PROVE  Explained(RowFault(row))
    <3>1. row \notin {Null, Foreign}
      BY <1>1, <2>1, <2>3, RowFaults
    <3>2. PICK i \in DOMAIN manifest :
            /\ manifest[i] \in Column /\ row[i] \in Cell
            /\ Conversion(manifest[i], row[i]) = RowFault(row)
      BY <1>1, <2>1, <2>3, RowFaults
    <3>3. RowFault(row) = "escapes" => Holds(PoisonCells)
      BY <3>1, <3>2, ConversionFaults, RowHolds
    <3>4. RowFault(row) = "unsupported" => Holds(Nested)
      BY <3>1, <3>2, ConversionFaults, RowHolds
    <3> QED
      BY <1>2, <2>2, <2>3, <3>3, <3>4 DEF Explained
  <2> QED
    BY <2>2, <2>3 DEF Explained
<1>4. Explained(KeyFault)
  <2>1. KeyFault \in Faults
    BY KeyFaults
  <2>2. ASSUME KeyFault \in {"escapes", "unsupported"}
        PROVE  Explained(KeyFault)
    <3>1. record.key \notin {Foreign, NoObject}
      BY <2>2, KeyFaults
    <3>2. PICK p \in KeyPositions :
            /\ manifest[KeyColumn(p)] \in Column /\ record.key[p] \in Cell
            /\ Conversion(manifest[KeyColumn(p)], record.key[p]) = KeyFault
      BY <2>2, KeyFaults
    <3>3. KeyFault = "escapes" => Holds(PoisonCells)
      BY <3>1, <3>2, ConversionFaults, KeyHolds
    <3>4. KeyFault = "unsupported" => Holds(Nested)
      BY <3>1, <3>2, ConversionFaults, KeyHolds
    <3> QED
      BY <1>2, <2>1, <2>2, <3>3, <3>4 DEF Explained
  <2> QED
    BY <2>1, <2>2 DEF Explained
<1> QED
  BY <1>3, <1>4

LEMMA ChecksAreExplained ==
  ASSUME RecordOK
  PROVE  DOMAIN Checks = 1..22 /\ \A i \in 1..22 : Explained(Checks[i])
<1>0. DOMAIN Checks = 1..22
  BY DEF Checks
<1>1. \A i \in {3, 4, 7, 17, 20, 22} : Checks[i] \in {"fine", "malformed"}
  <2>1. Checks[3] \in {"fine", "malformed"}
    BY DEF Checks, Refused
  <2>2. Checks[4] \in {"fine", "malformed"}
    BY DEF Checks, Refused
  <2>3. Checks[7] \in {"fine", "malformed"}
    BY DEF Checks, Refused
  <2>4. Checks[17] \in {"fine", "malformed"}
    BY DEF Checks, Refused
  <2>5. Checks[20] \in {"fine", "malformed"}
    BY DEF Checks, Refused
  <2>6. Checks[22] \in {"fine", "malformed"}
    BY DEF Checks, Encoding, Refused
  <2> QED
    BY <2>1, <2>2, <2>3, <2>4, <2>5, <2>6
<1>2. \A i \in {3, 4, 7, 17, 20, 22} : Explained(Checks[i])
  BY <1>1, PlainChecks
<1>3. /\ Explained(Checks[1]) /\ Explained(Checks[2]) /\ Explained(Checks[5])
      /\ Explained(Checks[6]) /\ Explained(Checks[8])
  BY PlainChecks DEF Checks
<1>4. /\ Explained(Checks[9]) /\ Explained(Checks[10]) /\ Explained(Checks[11])
      /\ Explained(Checks[14]) /\ Explained(Checks[15])
  BY PlainChecks DEF Checks
<1>5. /\ Explained(Checks[16]) /\ Explained(Checks[18]) /\ Explained(Checks[21])
  BY PlainChecks DEF Checks
<1>6. Explained(Checks[12]) /\ Explained(Checks[13]) /\ Explained(Checks[19])
  BY CellChecks DEF Checks
<1>7. \A i \in 1..22 : Explained(Checks[i])
  BY <1>2, <1>3, <1>4, <1>5, <1>6
<1> QED
  BY <1>0, <1>7

LEMMA FaultIsExplained ==
  ASSUME RecordOK
  PROVE  Explained(FirstFault(Checks))
<1>1. DOMAIN Checks \subseteq Nat /\ \A i \in DOMAIN Checks : Explained(Checks[i])
  BY ChecksAreExplained
<1>2. CASE FirstFault(Checks) = "fine"
  BY <1>2 DEF Explained, Faults
<1>3. CASE FirstFault(Checks) # "fine" /\ \E i \in DOMAIN Checks : Checks[i] = FirstFault(Checks)
  BY <1>1, <1>3
<1> QED
  BY <1>1, <1>2, <1>3, FirstFaultIsOne

\* What the checks leave of a row that jsonb takes.
LEMMA RowConforms ==
  ASSUME manifest \in Manifests,
         NEW row \in {record.before, record.after},
         row \in {Null, Foreign} \cup RowOf(manifest),
         RowFault(row) = "fine", row # Null, ~Holds(NoUtf8), ~Holds(JsonbRefuses)
  PROVE  /\ row # Foreign
         /\ \A i \in DOMAIN row :
              /\ row[i] \notin {"object", "nonfinite", "huge", "surrogate"}
              /\ row[i] = "null" => manifest[i].nullable
              /\ row[i] = "infinity" => manifest[i].type = "text"
              /\ row[i] \in {"boolean", "integer", "wide", "float"} =>
                   manifest[i].type \in {"boolean", "integer", "floating"}
<1>1. row \in RowOf(manifest) /\ \A i \in DOMAIN manifest : Conversion(manifest[i], row[i]) = "fine"
  BY RowFaults
<1>2. DOMAIN row = DOMAIN manifest /\ \A i \in DOMAIN manifest : row[i] \in Cell
  BY <1>1 DEF RowOf
<1>3. row # Foreign
  BY <1>1, OddRowsAssumption DEF RowOf
<1>4. ASSUME NEW i \in DOMAIN row
      PROVE  /\ row[i] \notin {"object", "nonfinite", "huge", "surrogate"}
             /\ row[i] = "null" => manifest[i].nullable
             /\ row[i] = "infinity" => manifest[i].type = "text"
             /\ row[i] \in {"boolean", "integer", "wide", "float"} =>
                  manifest[i].type \in {"boolean", "integer", "floating"}
  <2> DEFINE type == manifest[i].type
             cell == row[i]
  <2>1. manifest[i] \in Column /\ type \in DOMAIN Accepted /\ i \in DOMAIN manifest
    BY <1>2, ManifestIsColumns DEF Column
  <2>2. \/ cell = "null" /\ manifest[i].nullable
        \/ cell \in Accepted[type]
    BY <1>1, <1>2, <2>1, ConversionFaults
  <2>3. ~Lists(NoUtf8, manifest[i], cell) /\ ~Lists(JsonbRefuses, manifest[i], cell)
    BY <1>3, <2>1, RowHolds
  <2>4. cell # "surrogate"
    BY <2>1, <2>3 DEF Lists, NoUtf8
  <2>5. cell = "infinity" => type # "json"
    BY <2>1, <2>3 DEF Lists, JsonbRefuses
  <2>6. CASE cell = "null" /\ manifest[i].nullable
    BY <2>6
  <2>7. CASE cell \in Accepted[type]
    <3> HIDE DEF type, cell
    <3>1. /\ cell \notin {"null", "object", "nonfinite", "huge"}
          /\ cell = "infinity" => type \in {"text", "json"}
          /\ cell \in {"boolean", "integer", "wide", "float"} =>
               type \in {"boolean", "integer", "floating"}
      BY <2>1, <2>7, AcceptedCells
    <3> QED
      BY <2>4, <2>5, <3>1 DEF type, cell
  <2> QED
    BY <2>2, <2>6, <2>7
<1> QED
  BY <1>3, <1>4

\* What the checks that pass say of a record no check complains of.
LEMMA FineParts ==
  ASSUME RecordOK, FirstFault(Checks) = "fine"
  PROVE  /\ record.op \in {"r", "c", "u", "d"} /\ record.source = "manifest"
         /\ record.op # "d" <=> record.after # Null
         /\ record.op = "c" => record.before = Null
         /\ RowFault(record.before) = "fine" /\ RowFault(record.after) = "fine"
         /\ KeyFault = "fine"
         /\ ~Holds(NoUtf8)
<1>1. \A i \in 1..22 : Checks[i] = "fine"
  BY ChecksAreExplained, FirstFaultIsOne
<1>2. Checks[6] = "fine" /\ Checks[7] = "fine" /\ Checks[22] = "fine"
  BY <1>1
<1>3. Checks[12] = "fine" /\ Checks[13] = "fine" /\ Checks[14] = "fine" /\ Checks[19] = "fine"
  BY <1>1
<1>4. record.op \notin {"other", "unhashable"} /\ record.source # "other"
  BY <1>2 DEF Checks, Operation, Refused
<1>5. ~Holds(NoUtf8)
  BY <1>2 DEF Checks, Encoding, Refused
<1>6. RowFault(record.before) = "fine" /\ RowFault(record.after) = "fine"
  BY <1>3 DEF Checks
<1>7. Presence = "fine" /\ KeyFault = "fine"
  BY <1>3 DEF Checks
<1>8. /\ record.op \in {"r", "c", "u"} => record.after # Null
      /\ record.op = "c" => record.before = Null
      /\ record.op = "d" => record.after = Null
  BY <1>7 DEF Presence, Refused
<1>9. /\ record.op \in {"r", "c", "u", "d", "other", "unhashable"}
      /\ record.source \in {"manifest", "other"}
  BY PossibleRecord
<1> QED
  BY <1>4, <1>5, <1>6, <1>7, <1>8, <1>9

\* A record no check complains of and jsonb takes is a change of the manifest's table.
LEMMA FineConforms ==
  ASSUME RecordOK, FirstFault(Checks) = "fine", ~Holds(JsonbRefuses)
  PROVE  Conforming
<1>1. /\ manifest \in Manifests
      /\ record.before \in {Null, Foreign} \cup RowOf(manifest)
      /\ record.after \in {Null, Foreign} \cup RowOf(manifest)
  BY PossibleRecord
<1>2. \A row \in {record.before, record.after} \ {Null} :
        /\ row # Foreign
        /\ \A i \in DOMAIN row :
             /\ row[i] \notin {"object", "nonfinite", "huge", "surrogate"}
             /\ row[i] = "null" => manifest[i].nullable
             /\ row[i] = "infinity" => manifest[i].type = "text"
             /\ row[i] \in {"boolean", "integer", "wide", "float"} =>
                  manifest[i].type \in {"boolean", "integer", "floating"}
  BY <1>1, FineParts, RowConforms
<1> QED
  BY <1>2, FineParts DEF Conforming

-----------------------------------------------------------------------------
(* What the source sends.                                                  *)

LEMMA SentCells ==
  ASSUME NEW column \in Column, NEW cell \in Sent(column), ~Lists(Quarantined, column, cell)
  PROVE  /\ cell \in Cell
         /\ Conversion(column, cell) = "fine"
         /\ ~Lists(NoUtf8, column, cell)
<1> DEFINE type == column.type
<1>1. type \in DOMAIN Accepted
  BY DEF Column
<1>2. cell \in Sends[type] \/ (cell = "null" /\ column.nullable)
  BY DEF Sent
<1>3. ~(type \in DOMAIN Quarantined /\ cell \in Quarantined[type])
  BY DEF Lists
<1> HIDE DEF type
<1>4. CASE cell = "null" /\ column.nullable
  <2>1. ~Lists(Escaping, column, cell) /\ ~Lists(NoUtf8, column, cell)
    BY <1>4 DEF Lists, Escaping, NoUtf8
  <2> QED
    BY <1>4, <2>1 DEF Conversion, Refused, Cell
<1>5. CASE cell \in Sends[type]
  <2>1. /\ cell \in Accepted[type] /\ cell \in Cell
        /\ cell \notin {"null", "surrogate", "huge"}
    BY <1>1, <1>3, <1>5 DEF Accepted, Sends, Quarantined, Cell, Strings
  <2>2. ~(type = "json" /\ cell = "deep") /\ ~(type \in {"numeric", "timestamptz"} /\ cell = "beyond")
    BY <2>1 DEF Accepted
  <2>3. ~Lists(Escaping, column, cell) /\ ~Lists(NoUtf8, column, cell)
    BY <2>1, <2>2 DEF Lists, Escaping, NoUtf8, type
  <2> QED
    BY <2>1, <2>2, <2>3 DEF Conversion, Refused, type
<1> QED
  BY <1>2, <1>4, <1>5

LEMMA NoFaultIsFine ==
  ASSUME NEW f, DOMAIN f \subseteq Nat, \A i \in DOMAIN f : f[i] = "fine"
  PROVE  FirstFault(f) = "fine"
BY FirstFaultIsOne

LEMMA OrdinaryRow ==
  ASSUME manifest \in Manifests
  PROVE  /\ Row \in RowOf(manifest)
         /\ [p \in KeyPositions |-> Ordinary(KeyColumn(p))] \in [KeyPositions -> Cell]
<1>1. \A i \in DOMAIN manifest : Ordinary(i) \in {"boolean", "integer", "float", "literal"}
  BY DEF Ordinary
<1>2. \A i \in DOMAIN manifest : Ordinary(i) \in Cell
  BY <1>1 DEF Cell, Strings
<1> QED
  BY <1>2, KeyColumnIsThere DEF Row, RowOf

LEMMA SentRowIsFine ==
  ASSUME manifest \in Manifests,
         NEW row \in {record.before, record.after}, SentRow(row), ~Holds(Quarantined),
         row \in {Null, Foreign} \cup RowOf(manifest)
  PROVE  /\ RowFault(row) = "fine"
         /\ \A i \in DOMAIN manifest : ~Lists(NoUtf8, manifest[i], row[i])
<1>1. row \notin {Null, Foreign} /\ \A i \in DOMAIN manifest : row[i] \in Sent(manifest[i])
  BY DEF SentRow
<1>2. \A i \in DOMAIN manifest :
        /\ manifest[i] \in Column
        /\ ~Lists(Quarantined, manifest[i], row[i])
  BY <1>1, ManifestIsColumns, RowHolds
<1>3. \A i \in DOMAIN manifest :
        /\ Conversion(manifest[i], row[i]) = "fine"
        /\ ~Lists(NoUtf8, manifest[i], row[i])
  BY <1>1, <1>2, SentCells
<1> DEFINE f == [i \in DOMAIN manifest |-> Conversion(manifest[i], row[i])]
<1>4. RowFault(row) = FirstFault(f)
  BY <1>1 DEF RowFault
<1>5. DOMAIN f = DOMAIN manifest /\ DOMAIN f \subseteq Nat
  BY ManifestIsColumns
<1>6. \A i \in DOMAIN manifest : f[i] = "fine"
  BY <1>3
<1> HIDE DEF f
<1>7. FirstFault(f) = "fine"
  BY <1>5, <1>6, NoFaultIsFine
<1> QED
  BY <1>3, <1>4, <1>7

\* At least one column is in the key, and at most four positions are.
LEMMA KeyIsSmall ==
  ASSUME manifest \in Manifests
  PROVE  Cardinality(KeyPositions) \in 1..4
<1>1. KeyPositions \subseteq 1..4
  BY ManifestIsColumns
<1>2. IsFiniteSet(1..4) /\ Cardinality(1..4) = 4
  <2>1. 1 \in Int /\ 4 \in Int
    OBVIOUS
  <2>2. IsFiniteSet(1..4) /\ Cardinality(1..4) = IF 1 > 4 THEN 0 ELSE 4 - 1 + 1
    BY <2>1, FS_Interval, Zenon
  <2> QED
    BY <2>2
<1>3. /\ IsFiniteSet(KeyPositions)
      /\ Cardinality(KeyPositions) <= 4
  BY <1>1, <1>2, FS_Subset
<1>4. KeyPositions # {}
  BY ManifestsAssumption DEF KeyPositions
<1>5. Cardinality(KeyPositions) \in Nat /\ Cardinality(KeyPositions) # 0
  BY <1>3, <1>4, FS_CardinalityType, FS_EmptySet
<1> QED
  BY <1>3, <1>5

LEMMA SentKeyIsFine ==
  ASSUME manifest \in Manifests, record.key \notin {Foreign, NoObject}, ~Holds(Quarantined),
         \A p \in KeyPositions :
           record.key[p] \in Sent(manifest[KeyColumn(p)]) \ {"null"}
  PROVE  /\ KeyFault = "fine"
         /\ \A p \in KeyPositions : ~Lists(NoUtf8, manifest[KeyColumn(p)], record.key[p])
<1>1. \A p \in KeyPositions :
        /\ manifest[KeyColumn(p)] \in Column
        /\ ~Lists(Quarantined, manifest[KeyColumn(p)], record.key[p])
  BY KeyColumnIsThere, ManifestIsColumns, KeyHolds
<1>2. \A p \in KeyPositions :
        /\ record.key[p] # "null"
        /\ Conversion(manifest[KeyColumn(p)], record.key[p]) = "fine"
        /\ ~Lists(NoUtf8, manifest[KeyColumn(p)], record.key[p])
  BY <1>1, SentCells
<1> DEFINE f == [p \in KeyPositions |->
                   IF record.key[p] = "null" THEN "malformed"
                   ELSE Conversion(manifest[KeyColumn(p)], record.key[p])]
<1>3. KeyFault = FirstFault(f)
  BY DEF KeyFault
<1>4. DOMAIN f = KeyPositions /\ DOMAIN f \subseteq Nat
  BY ManifestIsColumns
<1>5. \A p \in KeyPositions : f[p] = "fine"
  BY <1>2
<1> HIDE DEF f
<1>6. FirstFault(f) = "fine"
  BY <1>4, <1>5, NoFaultIsFine
<1> QED
  BY <1>2, <1>3, <1>6

\* Everything but its rows and its key is as in Change.
LEMMA SentFields ==
  ASSUME AsSent
  PROVE  /\ record.raw = "small" /\ record.value = "bytes" /\ record.size = "small"
         /\ record.keyDocument = "wrapped" /\ record.document = "wrapped"
         /\ record.payload = "object" /\ record.schema = "fields"
         /\ record.keySchema = "matching" /\ RowSchema = "matching"
         /\ record.source = "manifest"
         /\ record.timestamp = "fine" /\ record.metadata = "fine"
<1>1. record = [Change(record.op) EXCEPT
                  !.before = record.before, !.after = record.after, !.key = record.key]
  BY DEF AsSent
<1> DEFINE change == Change(record.op)
<1>2. /\ record.raw = change.raw /\ record.value = change.value /\ record.size = change.size
      /\ record.keyDocument = change.keyDocument /\ record.document = change.document
      /\ record.payload = change.payload /\ record.schema = change.schema
      /\ record.keySchema = change.keySchema /\ record.source = change.source
      /\ record.beforeSchema = change.beforeSchema /\ record.afterSchema = change.afterSchema
      /\ record.timestamp = change.timestamp /\ record.metadata = change.metadata
  <2>1. record = [change EXCEPT !.before = record.before, !.after = record.after, !.key = record.key]
    BY <1>1
  <2>2. DOMAIN change = {"raw", "value", "keyDocument", "document", "payload", "schema",
        "beforeSchema", "afterSchema", "keySchema", "op", "source", "before", "after", "key",
        "timestamp", "metadata", "size"}
    BY DEF Change
  <2> HIDE DEF change
  <2> QED
    BY <2>1, <2>2
<1> QED
  BY <1>2 DEF Change, RowSchema

\* A change as the source sends it has no fault if the ordinals have no gap and it
\* holds none of the quarantined cells.
LEMMA SentChangeIsFine ==
  ASSUME RecordOK, AsSent, ~Holds(Quarantined), Numbered = "fine"
  PROVE  FirstFault(Checks) = "fine"
<1>0. /\ manifest \in Manifests
      /\ record.before \in {Null, Foreign} \cup RowOf(manifest)
      /\ record.after \in {Null, Foreign} \cup RowOf(manifest)
  BY PossibleRecord
<1>1. /\ record.op \in {"r", "c", "u", "d"}
      /\ record.before # Null => record.op \in {"u", "d"} /\ SentRow(record.before)
      /\ IF record.op = "d" THEN record.after = Null ELSE SentRow(record.after)
      /\ record.key \notin {Foreign, NoObject}
      /\ \A p \in KeyPositions : record.key[p] \in Sent(manifest[KeyColumn(p)]) \ {"null"}
  BY DEF AsSent
<1>2. ASSUME NEW row \in {record.before, record.after}
      PROVE  /\ RowFault(row) = "fine"
             /\ row = Null \/ \A i \in DOMAIN manifest : ~Lists(NoUtf8, manifest[i], row[i])
  <2>1. CASE row = Null
    BY <2>1 DEF RowFault
  <2>2. CASE row # Null
    <3>1. SentRow(row) /\ row \in {Null, Foreign} \cup RowOf(manifest)
      BY <1>0, <1>1, <2>2
    <3> QED
      BY <1>0, <3>1, SentRowIsFine
  <2> QED
    BY <2>1, <2>2
<1>3. /\ KeyFault = "fine"
      /\ \A p \in KeyPositions : ~Lists(NoUtf8, manifest[KeyColumn(p)], record.key[p])
      /\ Cardinality(KeyPositions) \in 1..4
  BY <1>0, <1>1, SentKeyIsFine, KeyIsSmall
<1>4. ~Holds(NoUtf8)
  BY <1>2, <1>3 DEF Holds
<1>5. (record.after # Null <=> record.op # "d") /\ (record.op = "c" => record.before = Null)
  BY <1>1 DEF SentRow
<1>6. /\ Checks[1] = "fine" /\ Checks[2] = "fine" /\ Checks[3] = "fine"
      /\ Checks[4] = "fine" /\ Checks[5] = "fine" /\ Checks[6] = "fine"
      /\ Checks[7] = "fine" /\ Checks[8] = "fine"
  BY <1>1, SentFields DEF Checks, Decoding, Access, Entries, Operation, Refused
<1>7. /\ Checks[9] = "fine" /\ Checks[10] = "fine" /\ Checks[11] = "fine"
      /\ Checks[12] = "fine" /\ Checks[13] = "fine"
  BY <1>2, SentFields DEF Checks, Entries, Compared, Refused
<1>8. Checks[14] = "fine"
  BY <1>1, <1>5 DEF Checks, Presence, Refused
<1>9. /\ Checks[15] = "fine" /\ Checks[16] = "fine" /\ Checks[17] = "fine"
      /\ Checks[18] = "fine" /\ Checks[19] = "fine" /\ Checks[20] = "fine"
      /\ Checks[21] = "fine"
  BY <1>1, <1>3, SentFields DEF Checks, Access, Entries, Compared, Refused
<1>10. Checks[22] = "fine"
  BY <1>4, SentFields DEF Checks, Encoding, Refused
<1>11. DOMAIN Checks = 1..22
  BY DEF Checks
<1>12. \A i \in 1..22 : Checks[i] = "fine"
  BY <1>6, <1>7, <1>8, <1>9, <1>10
<1> QED
  BY <1>11, <1>12, NoFaultIsFine

\* Increasing ordinals that are not the positions outgrow their number.
LEMMA GapsShow ==
  ASSUME manifest \in Manifests, Numbered # "fine"
  PROVE  \E i \in DOMAIN manifest : manifest[i].ordinal > Len(manifest)
<1>1. /\ DOMAIN manifest = 1..Len(manifest)
      /\ Len(manifest) \in Nat
      /\ \A i \in DOMAIN manifest : manifest[i].ordinal \in Nat \ {0}
      /\ \A i, j \in DOMAIN manifest : i < j => manifest[i].ordinal < manifest[j].ordinal
  BY ManifestIsColumns, ManifestsAssumption DEF Column
<1> DEFINE wrong == {i \in DOMAIN manifest : manifest[i].ordinal # i}
           n == Len(manifest)
<1>2. wrong # {} /\ wrong \subseteq Nat
  BY <1>1 DEF Numbered, Refused
<1> DEFINE least == Min(wrong)
<1>3. least \in wrong /\ \A i \in wrong : least <= i
  BY <1>2, LeastIsThere
<1> HIDE DEF least
<1>4. least \in 1..n /\ manifest[least].ordinal > least
  <2>1. CASE least = 1
    BY <1>1, <1>3, <2>1
  <2>2. CASE least # 1
    <3>1. least - 1 \in DOMAIN manifest /\ least - 1 \notin wrong /\ least - 1 < least
      BY <1>1, <1>3, <2>2
    <3> QED
      BY <1>1, <1>3, <3>1
  <2> QED
    BY <2>1, <2>2
<1> DEFINE small == {i \in least..n : manifest[i].ordinal <= i}
<1>5. small = {}
  <2> SUFFICES ASSUME small # {} PROVE FALSE
    OBVIOUS
  <2> DEFINE first == Min(small)
  <2>1. small \subseteq Nat
    BY <1>1, <1>4
  <2>2. first \in small /\ \A i \in small : first <= i
    BY <2>1, LeastIsThere
  <2> HIDE DEF first
  <2>3. first \in least..n /\ manifest[first].ordinal <= first /\ first # least
    BY <1>1, <1>4, <2>2
  <2>4. first - 1 \in least..n /\ first - 1 \notin small
    BY <1>1, <1>4, <2>2, <2>3
  <2>5. manifest[first - 1].ordinal > first - 1
    BY <1>1, <1>4, <2>4
  <2>6. manifest[first - 1].ordinal < manifest[first].ordinal
    BY <1>1, <1>4, <2>3, <2>4
  <2> QED
    BY <1>1, <1>4, <2>3, <2>4, <2>5, <2>6
<1>6. n \in DOMAIN manifest /\ n \in least..n
  BY <1>1, <1>4
<1> QED
  BY <1>1, <1>5, <1>6
-----------------------------------------------------------------------------
(* The worker.                                                             *)

LEMMA Outcomes ==
  ASSUME RecordOK, NEW whole \in BOOLEAN, NEW outcome, outcome = Normalized(whole)
  PROVE  /\ outcome.classification \in {"event", "control", "quarantine", "escapes"}
         /\ outcome.classification = "event" => FirstFault(Checks) = "fine"
         /\ outcome.classification = "control" => record.value = "null" /\ record.raw = "small"
         /\ outcome.classification = "escapes" => Poison
         /\ outcome.kind = "oversized" => record.raw = "large" \/ record.size # "small"
         /\ outcome.kind = "unsupported" => UnsupportedCause
<1> DEFINE fault == FirstFault(Checks)
<1>1. Explained(fault)
  BY FaultIsExplained
<1>2. record.raw \in {"small", "large"}
  BY PossibleRecord
<1>3. ~Fits(whole) => record.size # "small"
  BY DEF Fits
<1>4. \/ outcome = Quarantine("oversized") /\ (record.raw = "large" \/ ~Fits(whole))
      \/ outcome = Plain("control") /\ record.value = "null" /\ record.raw # "large"
      \/ outcome = Plain("escapes") /\ fault = "escapes"
      \/ outcome = Quarantine(fault) /\ fault # "escapes" /\ fault # "fine"
      \/ outcome = Plain("event") /\ fault = "fine"
  BY DEF Normalized
<1> HIDE DEF fault
<1>5. fault \in {"fine", "malformed", "escapes", "unsupported"}
  BY <1>1 DEF Explained, Faults
<1>6. CASE outcome = Quarantine(fault) /\ fault # "escapes" /\ fault # "fine"
  BY <1>1, <1>5, <1>6 DEF Quarantine, Explained
<1>7. CASE \/ outcome = Quarantine("oversized") /\ (record.raw = "large" \/ ~Fits(whole))
           \/ outcome = Plain("control") /\ record.value = "null" /\ record.raw # "large"
  BY <1>2, <1>3, <1>7 DEF Quarantine, Plain
<1>8. CASE \/ outcome = Plain("escapes") /\ fault = "escapes"
           \/ outcome = Plain("event") /\ fault = "fine"
  BY <1>1, <1>8 DEF Plain, Explained, fault
<1> QED
  BY <1>4, <1>6, <1>7, <1>8

\* The time of the ingestion matters at the edge of the size limit only.
LEMMA TimeMattersAtTheEdge ==
  ASSUME RecordOK, NEW v \in BOOLEAN, NEW w \in BOOLEAN, Normalized(v) # Normalized(w)
  PROVE  record.size = "edge"
<1>2. (Fits(v) <=> Fits(w)) => Normalized(v) = Normalized(w)
  BY DEF Normalized
<1>3. ~(Fits(v) <=> Fits(w)) => record.size = "edge"
  BY PossibleRecord DEF Fits
<1> QED
  BY <1>2, <1>3

LEMMA NormalizedStays ==
  ASSUME UNCHANGED <<manifest, record>>
  PROVE  /\ \A whole : Normalized(whole)' = Normalized(whole)
         /\ RecordOK => RecordOK'
         /\ Holds(JsonbRefuses)' <=> Holds(JsonbRefuses)
         /\ Poison => Poison'
<1>0. /\ Holds(JsonbRefuses)' <=> Holds(JsonbRefuses)
      /\ Holds(NoUtf8)' <=> Holds(NoUtf8)
      /\ Holds(PoisonCells)' <=> Holds(PoisonCells)
  BY DEF Holds, Lists, KeyPositions, KeyColumn
<1>1. \A whole : Normalized(whole)' = Normalized(whole)
  <2>1. Encoding' = Encoding
    BY <1>0 DEF Encoding, Refused
  <2>2. Checks' = Checks
    BY <2>1 DEF Checks, KeyFault, KeyColumn, KeyPositions, Numbered, RowFault, Presence,
                RowSchema, Operation
  <2> QED
    BY <2>2 DEF Normalized, Fits
<1>2. RecordOK => RecordOK'
  <2>1. Possible' = Possible
    BY DEF Possible, KeyPositions, RowOf
  <2> QED
    BY <2>1 DEF RecordOK
<1>3. Poison => Poison'
  BY <1>0 DEF Poison
<1> QED
  BY <1>0, <1>1, <1>2, <1>3

\* What the variables of the worker have to do with the record.
ResultIsOfTheRecord ==
  \/ result = Plain("none") /\ pc = "arrived" /\ durable = "none" /\ ended = "none"
  \/ /\ result # Plain("none")
     /\ \E whole \in BOOLEAN : result = Normalized(whole)
     /\ pc = "classified" => result.classification # "escapes"

DurableIsOfTheRecord ==
  /\ durable = "none" \/ \E whole \in BOOLEAN : durable = Normalized(whole).classification
  /\ durable = "event" => ~Holds(JsonbRefuses)
  /\ durable # "escapes"

NormalizationInv ==
  /\ RecordOK
  /\ ResultIsOfTheRecord
  /\ DurableIsOfTheRecord
  /\ OnlyPoisonEndsTheWorker

LEMMA AlternativesArePossible ==
  ASSUME manifest \in Manifests
  PROVE  /\ DOMAIN Alternatives = DOMAIN Possible
         /\ \A field \in DOMAIN Alternatives : Alternatives[field] \subseteq Possible[field]
<1>1. Row \in RowOf(manifest)
  BY OrdinaryRow
<1>2. DOMAIN Alternatives = DOMAIN Possible
  BY DEF Alternatives, Possible
<1>3. /\ Alternatives.raw \subseteq Possible.raw
      /\ Alternatives.value \subseteq Possible.value
      /\ Alternatives.keyDocument \subseteq Possible.keyDocument
      /\ Alternatives.document \subseteq Possible.document
      /\ Alternatives.payload \subseteq Possible.payload
      /\ Alternatives.schema \subseteq Possible.schema
  BY DEF Alternatives, Possible
<1>4. /\ Alternatives.beforeSchema \subseteq Possible.beforeSchema
      /\ Alternatives.afterSchema \subseteq Possible.afterSchema
      /\ Alternatives.keySchema \subseteq Possible.keySchema
      /\ Alternatives.op \subseteq Possible.op
      /\ Alternatives.source \subseteq Possible.source
  BY DEF Alternatives, Possible
<1>5. /\ Alternatives.before \subseteq Possible.before
      /\ Alternatives.after \subseteq Possible.after
      /\ Alternatives.key \subseteq Possible.key
      /\ Alternatives.timestamp \subseteq Possible.timestamp
      /\ Alternatives.metadata \subseteq Possible.metadata
      /\ Alternatives.size \subseteq Possible.size
  BY <1>1 DEF Alternatives, Possible
<1>6. DOMAIN Alternatives = {"raw", "value", "keyDocument", "document", "payload", "schema",
        "beforeSchema", "afterSchema", "keySchema", "op", "source", "before", "after", "key",
        "timestamp", "metadata", "size"}
  BY DEF Alternatives
<1> QED
  BY <1>2, <1>3, <1>4, <1>5, <1>6

LEMMA FieldMayDeviate ==
  ASSUME RecordOK, manifest' = manifest,
         NEW field \in DOMAIN Possible, NEW value \in Possible[field],
         record' = [record EXCEPT ![field] = value]
  PROVE  RecordOK'
<1>1. Possible' = Possible
  BY DEF Possible, KeyPositions, RowOf
<1>2. DOMAIN record' = DOMAIN Possible
  BY DEF RecordOK
<1>3. \A f \in DOMAIN Possible : record'[f] = IF f = field THEN value ELSE record[f]
  BY DEF RecordOK
<1>4. \A f \in DOMAIN Possible : record'[f] \in Possible[f]
  BY <1>3 DEF RecordOK
<1> QED
  BY <1>1, <1>2, <1>4 DEF RecordOK

LEMMA CellMayDeviate ==
  ASSUME RecordOK, NEW field \in {"before", "after", "key"},
         record[field] \notin {Null, Foreign, NoObject},
         NEW i \in DOMAIN record[field], NEW cell \in Cell
  PROVE  [record[field] EXCEPT ![i] = cell] \in Possible[field]
<1>1. CASE field \in {"before", "after"}
  <2>1. record[field] \in RowOf(manifest)
    BY <1>1, PossibleRecord
  <2>2. [record[field] EXCEPT ![i] = cell] \in RowOf(manifest)
    BY <2>1 DEF RowOf
  <2>3. RowOf(manifest) \subseteq Possible["before"] /\ RowOf(manifest) \subseteq Possible["after"]
    BY DEF Possible
  <2> QED
    BY <1>1, <2>2, <2>3
<1>2. CASE field = "key"
  <2>1. record[field] \in [KeyPositions -> Cell]
    BY <1>2, PossibleRecord
  <2>2. [record[field] EXCEPT ![i] = cell] \in [KeyPositions -> Cell]
    BY <2>1
  <2> QED
    BY <1>2, <2>2 DEF Possible
<1> QED
  BY <1>1, <1>2

-----------------------------------------------------------------------------
(* The invariant.                                                          *)

LEMMA InitNormalizationInv == Init => NormalizationInv
<1> SUFFICES ASSUME Init PROVE NormalizationInv
  OBVIOUS
<1>1. manifest \in Manifests
  BY DEF Init
<1>2. PICK op \in {"r", "c", "u", "d"} : record = Change(op)
  BY DEF Init
<1>3. record.key \in [KeyPositions -> Cell]
  BY <1>1, <1>2, OrdinaryRow DEF Change
<1>4. /\ record.before \in {Null, Foreign} \cup RowOf(manifest)
      /\ record.after \in {Null, Foreign} \cup RowOf(manifest)
  BY <1>1, <1>2, OrdinaryRow DEF Change
<1>5. DOMAIN record = DOMAIN Possible
  BY <1>2 DEF Change, Possible
<1>6. /\ record.raw \in Possible.raw
      /\ record.value \in Possible.value
      /\ record.keyDocument \in Possible.keyDocument
      /\ record.document \in Possible.document
      /\ record.payload \in Possible.payload
      /\ record.schema \in Possible.schema
      /\ record.beforeSchema \in Possible.beforeSchema
      /\ record.afterSchema \in Possible.afterSchema
  BY <1>2 DEF Change, Possible
<1>7. /\ record.keySchema \in Possible.keySchema
      /\ record.op \in Possible.op
      /\ record.source \in Possible.source
      /\ record.timestamp \in Possible.timestamp
      /\ record.metadata \in Possible.metadata
      /\ record.size \in Possible.size
  BY <1>2 DEF Change, Possible
<1>8. /\ record.before \in Possible.before
      /\ record.after \in Possible.after
      /\ record.key \in Possible.key
  BY <1>3, <1>4 DEF Possible
<1>9. DOMAIN Possible = {"raw", "value", "keyDocument", "document", "payload", "schema",
        "beforeSchema", "afterSchema", "keySchema", "op", "source", "before", "after", "key",
        "timestamp", "metadata", "size"}
  BY DEF Possible
<1>10. RecordOK
  BY <1>1, <1>5, <1>6, <1>7, <1>8, <1>9 DEF RecordOK
<1>12. ResultIsOfTheRecord /\ DurableIsOfTheRecord /\ OnlyPoisonEndsTheWorker
  BY DEF Init, ResultIsOfTheRecord, DurableIsOfTheRecord, OnlyPoisonEndsTheWorker
<1> QED
  BY <1>10, <1>12 DEF NormalizationInv

\* A record deviates before it is classified first.
LEMMA DeviatingKeepsInv ==
  ASSUME NormalizationInv, NEW changed, Deviates(changed), RecordOK'
  PROVE  NormalizationInv'
<1>1. result = Plain("none") /\ pc = "arrived"
  BY DEF Deviates
<1>2. durable = "none" /\ ended = "none"
  BY <1>1 DEF NormalizationInv, ResultIsOfTheRecord
<1>3. UNCHANGED <<pc, result, durable, ended>>
  BY DEF Deviates
<1>4. Plain("none")' = Plain("none")
  BY DEF Plain
<1>5. ResultIsOfTheRecord' /\ DurableIsOfTheRecord' /\ OnlyPoisonEndsTheWorker'
  BY <1>1, <1>2, <1>3, <1>4
  DEF ResultIsOfTheRecord, DurableIsOfTheRecord, OnlyPoisonEndsTheWorker
<1> QED
  BY <1>5 DEF NormalizationInv

\* The envelope of an event can be stored unless it holds one of the named cells or
\* its metadata are at fault.
LEMMA UnstorableIsPoison ==
  ASSUME RecordOK, result.classification = "event", FirstFault(Checks) = "fine", ~Storable
  PROVE  Poison
<1>1. manifest \in Manifests
  BY PossibleRecord
<1>2. CASE record.metadata \in {"nul", "nonfinite"}
  BY <1>2 DEF Poison
<1>3. CASE Holds(JsonbRefuses)
  <2>1. ASSUME NEW row \in {record.before, record.after} \ {Null, Foreign},
               NEW i \in DOMAIN manifest, Lists(JsonbRefuses, manifest[i], row[i])
        PROVE  Holds(PoisonCells)
    <3>1. row \in {Null, Foreign} \cup RowOf(manifest) /\ RowFault(row) = "fine"
      BY FineParts, PossibleRecord
    <3>2. row \in RowOf(manifest) /\ Conversion(manifest[i], row[i]) = "fine"
      BY <1>1, <3>1, RowFaults
    <3>3. manifest[i] \in Column /\ row[i] \in Cell
      BY <1>1, <3>2, ManifestIsColumns DEF RowOf
    <3>4. Lists(PoisonCells, manifest[i], row[i])
      BY <2>1, <3>2, <3>3, RefusedIsPoison
    <3> QED
      BY <3>4, RowHolds
  <2>2. ASSUME record.key \notin {Foreign, NoObject}, NEW p \in KeyPositions,
               Lists(JsonbRefuses, manifest[KeyColumn(p)], record.key[p])
        PROVE  Holds(PoisonCells)
    <3>1. /\ record.key \in [KeyPositions -> Cell]
          /\ manifest[KeyColumn(p)] \in Column
          /\ Conversion(manifest[KeyColumn(p)], record.key[p]) = "fine"
      BY FineParts, KeyFaults
    <3>2. record.key[p] \in Cell
      BY <3>1
    <3>3. Lists(PoisonCells, manifest[KeyColumn(p)], record.key[p])
      BY <2>2, <3>1, <3>2, RefusedIsPoison
    <3> QED
      BY <2>2, <3>3, KeyHolds
  <2>3. Holds(PoisonCells)
    BY <1>3, <2>1, <2>2 DEF Holds
  <2> QED
    BY <2>3 DEF Poison
<1> QED
  BY <1>2, <1>3 DEF Storable

LEMMA StepNormalizationInv ==
  ASSUME NormalizationInv, [Next]_vars
  PROVE  NormalizationInv'
<1> USE DEF NormalizationInv
<1>1. ASSUME NEW field \in DOMAIN Alternatives, Deviate(field)
      PROVE  NormalizationInv'
  <2>1. PICK value \in Alternatives[field] : Deviates([record EXCEPT ![field] = value])
    BY <1>1 DEF Deviate
  <2>2. field \in DOMAIN Possible /\ value \in Possible[field]
    BY AlternativesArePossible, PossibleRecord
  <2>3. manifest' = manifest /\ record' = [record EXCEPT ![field] = value]
    BY <2>1 DEF Deviates
  <2>4. RecordOK'
    BY <2>2, <2>3, FieldMayDeviate
  <2> QED
    BY <2>1, <2>4, DeviatingKeepsInv
<1>2. ASSUME NEW field \in {"before", "after", "key"}, DeviateCell(field)
      PROVE  NormalizationInv'
  <2>1. PICK i \in DOMAIN record[field], cell \in Cell :
          Deviates([record EXCEPT ![field][i] = cell])
    BY <1>2 DEF DeviateCell
  <2> DEFINE value == [record[field] EXCEPT ![i] = cell]
  <2>2. value \in Possible[field]
    BY <1>2, CellMayDeviate DEF DeviateCell
  <2>3. field \in DOMAIN Possible
    BY DEF Possible
  <2>4. manifest' = manifest /\ record' = [record EXCEPT ![field] = value]
    BY <2>1 DEF Deviates
  <2>5. RecordOK'
    <3> HIDE DEF value
    <3> QED
      BY <2>2, <2>3, <2>4, FieldMayDeviate
  <2> QED
    BY <2>1, <2>5, DeviatingKeepsInv
<1>3. ASSUME UNCHANGED <<manifest, record>>
      PROVE  /\ RecordOK'
             /\ Plain("none")' = Plain("none")
             /\ \A whole : Normalized(whole)' = Normalized(whole)
             /\ Holds(JsonbRefuses)' <=> Holds(JsonbRefuses)
             /\ Poison => Poison'
  <2>1. Plain("none")' = Plain("none")
    BY DEF Plain
  <2> QED
    BY <1>3, <2>1, NormalizedStays
<1>4. ASSUME NEW whole \in BOOLEAN
      PROVE  /\ Normalized(whole) # Plain("none")
             /\ Normalized(whole).classification = "escapes" => Poison
  BY Outcomes DEF Plain
<1>5. ASSUME NEW whole \in BOOLEAN, Classify(whole)
      PROVE  NormalizationInv'
  <2>1. /\ UNCHANGED <<manifest, record, deviations, durable, ended>>
        /\ result' = Normalized(whole)
        /\ Normalized(whole).classification # "escapes"
    BY <1>5 DEF Classify
  <2>2. ResultIsOfTheRecord'
    BY <1>3, <1>4, <2>1 DEF ResultIsOfTheRecord
  <2>3. DurableIsOfTheRecord' /\ OnlyPoisonEndsTheWorker'
    BY <1>3, <2>1 DEF DurableIsOfTheRecord, OnlyPoisonEndsTheWorker
  <2> QED
    BY <1>3, <2>1, <2>2, <2>3
<1>6. CASE Escape
  <2>1. /\ UNCHANGED <<manifest, record, deviations, pc, durable>>
        /\ pc = "arrived"
        /\ result' = Normalized(TRUE)
        /\ Normalized(TRUE).classification = "escapes"
    BY <1>6 DEF Escape
  <2>2. ResultIsOfTheRecord'
    BY <1>3, <1>4, <2>1 DEF ResultIsOfTheRecord
  <2>3. DurableIsOfTheRecord'
    BY <1>3, <2>1 DEF DurableIsOfTheRecord
  <2>4. OnlyPoisonEndsTheWorker'
    BY <1>3, <1>4, <2>1 DEF OnlyPoisonEndsTheWorker
  <2> QED
    BY <1>3, <2>1, <2>2, <2>3, <2>4
<1>7. ASSUME pc = "classified"
      PROVE  /\ result # Plain("none")
             /\ \E whole \in BOOLEAN : result = Normalized(whole)
  BY <1>7 DEF ResultIsOfTheRecord
<1>8. CASE Stage
  <2>1. /\ UNCHANGED <<manifest, record, deviations, result>>
        /\ pc = "classified" /\ pc' = "arrived"
        /\ durable' = IF Storable THEN result.classification ELSE "none"
        /\ ended' = IF Storable THEN "none" ELSE "unstorable"
    BY <1>8 DEF Stage
  <2>2. PICK whole \in BOOLEAN : result = Normalized(whole)
    BY <1>7, <2>1
  <2>3. ResultIsOfTheRecord'
    BY <1>3, <1>7, <2>1 DEF ResultIsOfTheRecord
  <2>4. DurableIsOfTheRecord'
    <3>1. ~Storable => durable' = "none"
      BY <2>1
    <3>2. Storable => durable' = result.classification
      BY <2>1
    <3>3. Storable /\ durable' = "event" => ~Holds(JsonbRefuses)'
      BY <1>3, <2>1, <3>2 DEF Storable
    <3>4. result.classification # "escapes"
      BY <2>1, <1>7 DEF ResultIsOfTheRecord
    <3> QED
      BY <1>3, <2>1, <2>2, <3>1, <3>2, <3>3, <3>4 DEF DurableIsOfTheRecord
  <2>5. ~Storable => Poison
    <3>1. ~Storable => result.classification = "event"
      BY DEF Storable
    <3> QED
      BY <2>2, <3>1, Outcomes, UnstorableIsPoison
  <2>6. OnlyPoisonEndsTheWorker'
    BY <1>3, <2>1, <2>5 DEF OnlyPoisonEndsTheWorker
  <2> QED
    BY <1>3, <2>1, <2>3, <2>4, <2>6
<1>9. CASE StageAgain
  <2>1. /\ UNCHANGED <<manifest, record, deviations, result, durable>>
        /\ pc = "classified" /\ pc' = "arrived" /\ durable # "none"
        /\ ended' = IF durable = result.classification THEN "none" ELSE "conflict"
    BY <1>9 DEF StageAgain
  <2>2. PICK v \in BOOLEAN : result = Normalized(v)
    BY <1>7, <2>1
  <2>3. PICK w \in BOOLEAN : durable = Normalized(w).classification
    BY <2>1 DEF DurableIsOfTheRecord
  <2>4. durable # result.classification => Poison
    BY <2>2, <2>3, TimeMattersAtTheEdge DEF Poison
  <2>5. ResultIsOfTheRecord'
    BY <1>3, <1>7, <2>1 DEF ResultIsOfTheRecord
  <2>6. DurableIsOfTheRecord'
    BY <1>3, <2>1 DEF DurableIsOfTheRecord
  <2>7. OnlyPoisonEndsTheWorker'
    BY <1>3, <2>1, <2>4 DEF OnlyPoisonEndsTheWorker
  <2> QED
    BY <1>3, <2>1, <2>5, <2>6, <2>7
<1>10. CASE UNCHANGED vars
  <2>1. UNCHANGED <<manifest, record, deviations, pc, result, durable, ended>>
    BY <1>10 DEF vars
  <2>2. ResultIsOfTheRecord' /\ DurableIsOfTheRecord' /\ OnlyPoisonEndsTheWorker'
    BY <1>3, <2>1 DEF ResultIsOfTheRecord, DurableIsOfTheRecord, OnlyPoisonEndsTheWorker
  <2> QED
    BY <1>3, <2>1, <2>2
<1> QED
  BY <1>1, <1>2, <1>5, <1>6, <1>8, <1>9, <1>10 DEF Next

\* The inductive invariant: the last result and the durable row are outcomes of
\* the record as it is, at one time or another, and the record deviates only
\* before it is classified.
THEOREM NormalizationInvariant == Spec => []NormalizationInv
<1>1. NormalizationInv /\ [Next]_vars => NormalizationInv'
  BY StepNormalizationInv
<1> QED
  BY <1>1, InitNormalizationInv, PTL DEF Spec

LEMMA InvJustifies ==
  ASSUME NormalizationInv
  PROVE  OutcomeIsJustified
<1>1. RecordOK
  BY DEF NormalizationInv
<1>2. durable = "none" \/ \E whole \in BOOLEAN : durable = Normalized(whole).classification
  BY DEF NormalizationInv, DurableIsOfTheRecord
<1>3. durable = "event" => Conforming
  BY <1>1, <1>2, Outcomes, FineConforms DEF NormalizationInv, DurableIsOfTheRecord
<1>4. durable = "control" => record.value = "null" /\ record.raw = "small"
  BY <1>1, <1>2, Outcomes
<1>5. result = Plain("none") \/ \E whole \in BOOLEAN : result = Normalized(whole)
  BY DEF NormalizationInv, ResultIsOfTheRecord
<1>6. /\ result.kind = "oversized" => record.raw = "large" \/ record.size # "small"
      /\ result.kind = "unsupported" => UnsupportedCause
  BY <1>1, <1>5, Outcomes DEF Plain
<1>7. ASSUME durable # "none", AsSent, ~Holds(Quarantined)
      PROVE  durable = "event" \/ \E i \in DOMAIN manifest : manifest[i].ordinal > Len(manifest)
  <2>1. CASE Numbered # "fine"
    BY <1>1, <2>1, GapsShow, PossibleRecord
  <2>2. CASE Numbered = "fine"
    <3>1. FirstFault(Checks) = "fine"
      BY <1>1, <1>7, <2>2, SentChangeIsFine
    <3>2. record.raw = "small" /\ record.value = "bytes" /\ record.size = "small"
      BY <1>7, SentFields
    <3>3. \A whole : Normalized(whole) = Plain("event")
      BY <3>1, <3>2 DEF Normalized, Fits
    <3> QED
      BY <1>2, <1>7, <3>3 DEF Plain
  <2> QED
    BY <2>1, <2>2
<1> QED
  BY <1>3, <1>4, <1>6, <1>7 DEF OutcomeIsJustified, UnsupportedCause

\* What is stored of a record is justified by it: the order of the checks hides
\* no fault of an event and gives no discontinuity the kind of another cause.
THEOREM OutcomesAreJustified == Spec => []OutcomeIsJustified
<1>1. NormalizationInv => OutcomeIsJustified
  BY InvJustifies
<1> QED
  BY <1>1, NormalizationInvariant, PTL

\* Whatever a record is like and however often it is delivered, the worker ends
\* at it only for one of the named faults.
THEOREM PoisonAlone == Spec => []OnlyPoisonEndsTheWorker
BY NormalizationInvariant, PTL DEF NormalizationInv
=============================================================================
