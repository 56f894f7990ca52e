----------------------------- MODULE NvarStore -----------------------------
(* NVAR stores (nvar.rs) and the values of setup questions they hold        *)
(* (hii/mod.rs: get_value, set_value, seed_lookup). A store body is a       *)
(* sequence of cells 0..Base-1; a field of the format is one cell: the      *)
(* signature, the size, the link, the attributes, a GUID, a GUID index. A   *)
(* value of width w takes w cells, the low one first. A store is            *)
(* [baked, body]: baked if it is behind a section that cannot be packed     *)
(* again. The stores of an image are in the order of the tree walk.         *)
EXTENDS Ifr

CONSTANTS
  Base,            \* values of a cell
  SIG,             \* the cell that starts a record
  HDR,             \* cells of a record's header
  MAX_DEPTH,       \* how deep stores inside records are followed
  StdName,         \* the name "StdDefaults"
  NumericRange     \* what the numeric questions accept

ASSUME NvarAssumption == SIG \in 1..(Base - 1) /\ HDR = 4 /\ Base >= 32 /\ MAX_DEPTH \in Nat

(* Attributes. *)
ASCII_NAME == 1
LOCAL_GUID == 2
DATA_ONLY == 4
EXTENDED_HEADER == 8
VALID == 16
Has(attr, bit) == (attr \div bit) % 2 = 1

NoRecord == [ok |-> FALSE, off |-> 0, size |-> 0, attr |-> 0, index |-> -1, guid |-> -1,
             ext |-> 0, named |-> FALSE, name |-> <<>>, data |-> 0, len |-> 0]

(* First cell of the terminator of the name at p, 0 if it does not end     *)
(* inside the record: one zero cell, or an aligned pair of them.           *)
NameEnd(buf, p, end, ascii) ==
  LeastOr({e \in p..(IF ascii THEN end ELSE end - 1) :
             buf[e] = 0 /\ (ascii \/ (buf[e + 1] = 0 /\ (e - p) % 2 = 0))}, 0)

(* The record at cell off (from 1). Its named part is only there when it   *)
(* is valid and not data only.                                             *)
parse_entry(buf, off) ==
  IF off + HDR - 1 > Len(buf) \/ buf[off] # SIG THEN NoRecord
  ELSE LET size  == buf[off + 1]
           attr  == buf[off + 3]
           end   == off + size - 1
           full  == Has(attr, VALID) /\ ~Has(attr, DATA_ONLY)
           ascii == Has(attr, ASCII_NAME)
           p     == off + HDR + 1
           e     == NameEnd(buf, p, end, ascii)
           data  == IF ~full THEN off + HDR ELSE IF ascii THEN e + 1 ELSE e + 2
           esz   == buf[end]
           ext   == IF Has(attr, EXTENDED_HEADER) /\ size > HDR + 2 /\ esz >= 2 /\ esz <= size - HDR THEN esz ELSE 0
       IN  IF \/ size < HDR \/ end > Len(buf)
              \/ full /\ (off + HDR > Len(buf) \/ p > end + 1 \/ e = 0)
              \/ data > end + 1 - ext
           THEN NoRecord
           ELSE [ok |-> TRUE, off |-> off, size |-> size, attr |-> attr,
                 index |-> IF full /\ ~Has(attr, LOCAL_GUID) THEN buf[off + HDR] ELSE -1, guid |-> -1,
                 ext |-> ext, named |-> full, name |-> IF full THEN SubSeq(buf, p, e - 1) ELSE <<>>,
                 data |-> data, len |-> end + 1 - ext - data]

is_nvar_body(buf) == parse_entry(buf, 1).ok

RECURSIVE WalkFrom(_, _)
WalkOn(buf, r) == IF r.ok THEN <<r>> \o WalkFrom(buf, r.off + r.size) ELSE <<>>
WalkFrom(buf, off) == WalkOn(buf, parse_entry(buf, off))
walk(buf) == WalkFrom(buf, 1)

(* GUID k of the table that grows down from the end of the buffer. *)
resolve_guid(buf, k) == IF k < 0 \/ k >= Len(buf) THEN -1 ELSE buf[Len(buf) - k]

DataOf(buf, r) == SubSeq(buf, r.data, r.data + r.len - 1)

(* The records in preorder with those of the stores in their data, offsets *)
(* from the start of the whole body, GUIDs from the tail of each level.    *)
RECURSIVE flatten_inner(_, _, _)
RowsOf(buf, base, depth, rs) ==
  LET Row(r) == [rec |-> [r EXCEPT !.guid = resolve_guid(buf, r.index)], depth |-> depth, at |-> base + r.data]
      Below(r) == IF depth >= MAX_DEPTH \/ r.len < HDR \/ ~is_nvar_body(DataOf(buf, r)) THEN <<>>
                  ELSE flatten_inner(DataOf(buf, r), base + r.data - 1, depth + 1)
  IN  FlattenSeq([n \in DOMAIN rs |-> <<Row(rs[n])>> \o Below(rs[n])])
flatten_inner(buf, base, depth) == RowsOf(buf, base, depth, walk(buf))
flatten(buf) == flatten_inner(buf, 0, 0)

(***************************************************************************)
(* One variable by its name, and by its GUID where one is given.           *)
(***************************************************************************)
AnyGuid == -1
VarsNamed(buf, name, guid) ==
  SelectSeq(flatten(buf), LAMBDA f : f.rec.named /\ f.rec.name = name /\ (guid = AnyGuid \/ f.rec.guid = guid))
Ambiguous(buf, name, guid) == Len(VarsNamed(buf, name, guid)) > 1
Found(buf, name, guid) == Len(VarsNamed(buf, name, guid)) = 1
find_var(buf, name, guid) == VarsNamed(buf, name, guid)[1]

(* What a listing shows of a store: its rows, and the cells left between   *)
(* the records and the GUID table.                                         *)
FreeOf(buf, top) ==
  LET used  == IF top = <<>> THEN 0 ELSE Last(top).off + Last(top).size - 1
      guids == {0} \cup {top[n].index + 1 : n \in DOMAIN top}
      n     == Len(buf) - used - (CHOOSE g \in guids : \A h \in guids : h <= g)
  IN  IF n < 0 THEN 0 ELSE n
RowShown(f) == [name |-> f.rec.name, guid |-> f.rec.guid, at |-> f.at, len |-> f.rec.len, attr |-> f.rec.attr, depth |-> f.depth]
RowsShown(rows) == [n \in DOMAIN rows |-> RowShown(rows[n])]
listing_of(buf) == [rows |-> RowsShown(flatten(buf)), free |-> FreeOf(buf, walk(buf))]

(* The stores a listing and an edit see. *)
collect_stores(ss) == SelectSeq([n \in DOMAIN ss |-> n], LAMBDA n : is_nvar_body(ss[n].body) /\ ~ss[n].baked)

nvar_list(ss) == LET at == collect_stores(ss) IN [n \in DOMAIN at |-> listing_of(ss[at[n]].body)]

(***************************************************************************)
(* Edits. Both check every copy first and write all of them or none.       *)
(***************************************************************************)
LeCells(v, w) == [k \in 1..w |-> IF k = 1 THEN v % Base ELSE (v \div Base) % Base]
LeValue(cells) == cells[1] + (IF Len(cells) > 1 THEN Base * cells[2] ELSE 0)
Fits(v, w) == IF w = 1 THEN v < Base ELSE TRUE
Written(buf, at, cells) == [c \in DOMAIN buf |-> IF c \in at..(at + Len(cells) - 1) THEN cells[c - at + 1] ELSE buf[c]]
Done(ss) == [ok |-> TRUE, stores |-> ss]
Err(ss) == [ok |-> FALSE, stores |-> ss]

collect_var_hits(ss, name, guid) == SelectSeq(collect_stores(ss), LAMBDA n : Found(ss[n].body, name, guid))

HitAllowed(var, off, w) == var.rec.ext = 0 /\ off + w <= var.rec.len

SetHits(ss, hits, name, guid, off, v, w) ==
  IF \/ ~Fits(v, w) \/ hits = {}
     \/ \E n \in Range(collect_stores(ss)) : Ambiguous(ss[n].body, name, guid)
     \/ \E n \in hits : ~HitAllowed(find_var(ss[n].body, name, guid), off, w)
  THEN Err(ss)
  ELSE Done([n \in DOMAIN ss |->
         IF n \notin hits THEN ss[n]
         ELSE [ss[n] EXCEPT !.body = Written(@, find_var(@, name, guid).at + off, LeCells(v, w))]])
nvar_set(ss, name, guid, off, v, w) == SetHits(ss, Range(collect_var_hits(ss, name, guid)), name, guid, off, v, w)

(***************************************************************************)
(* The defaults of setup questions: records inside the first record of a   *)
(* store that is named StdDefaults.                                        *)
(***************************************************************************)
IsStd(r) == r.ok /\ r.named /\ r.name = StdName
is_std_defaults(buf) == IsStd(parse_entry(buf, 1))

(* First cell of the data of the record with this name and length, 0 if    *)
(* there is none.                                                          *)
FirstData(hits, outer) == IF hits = <<>> THEN 0 ELSE outer.data - 1 + hits[1].data
RecordIn(buf, outer, name, size) ==
  IF ~IsStd(outer) THEN 0
  ELSE FirstData(SelectSeq(walk(DataOf(buf, outer)), LAMBDA r : r.named /\ r.name = name /\ r.len = size), outer)
find_varstore_record(buf, name, size) == RecordIn(buf, parse_entry(buf, 1), name, size)

collect_std_defaults_bodies(ss) == SelectSeq([n \in DOMAIN ss |-> n], LAMBDA n : is_std_defaults(ss[n].body) /\ ~ss[n].baked)

(* Where each copy holds the record; an accessible copy without it is an   *)
(* error.                                                                  *)
HitsAt(ss, name, size, at) == [k \in DOMAIN at |-> <<at[k], find_varstore_record(ss[at[k]].body, name, size)>>]
collect_std_defaults_hits(ss, name, size) == HitsAt(ss, name, size, collect_std_defaults_bodies(ss))
Complete(hits) == \A k \in DOMAIN hits : hits[k][2] # 0

InStore(q) == q.store # NoStore /\ q.slot.width > 0 /\ q.slot.off + q.slot.width <= q.store.size

(* The value a listing shows: copies without the record are passed over.   *)
NoValue == -1
ValueAt(buf, at, w) == LeValue(SubSeq(buf, at, at + w - 1))
FirstValue(ss, q, hits) == IF hits = <<>> THEN NoValue ELSE ValueAt(ss[hits[1][1]].body, hits[1][2] + q.slot.off, q.slot.width)
seed_lookup(ss, q) ==
  IF ~InStore(q) THEN NoValue
  ELSE FirstValue(ss, q, SelectSeq(collect_std_defaults_hits(ss, q.store.name, q.store.size), LAMBDA h : h[2] # 0))

GetFrom(ss, q, hits) ==
  IF ~Complete(hits) THEN [ok |-> FALSE, v |-> NoValue] ELSE [ok |-> TRUE, v |-> FirstValue(ss, q, hits)]
get_value(ss, q) ==
  IF q = NoQuestion THEN [ok |-> FALSE, v |-> NoValue]
  ELSE IF ~InStore(q) THEN [ok |-> TRUE, v |-> NoValue]
  ELSE GetFrom(ss, q, collect_std_defaults_hits(ss, q.store.name, q.store.size))

validate_set_value(q, v) ==
  /\ q.kind \in {"CHECKBOX", "ONEOF", "NUMERIC"} /\ q.slot.width > 0 /\ Fits(v, q.slot.width)
  /\ q.kind = "CHECKBOX" => v <= 1
  /\ q.kind = "ONEOF" => v \in q.values
  /\ q.kind = "NUMERIC" => v \in NumericRange

SetAddress(hit, q) == hit[2] + q.slot.off

SetIn(ss, q, v, hits) ==
  LET At(n) == CHOOSE h \in Range(hits) : h[1] = n
  IN  IF ~Complete(hits) \/ hits = <<>> THEN Err(ss)
      ELSE Done([n \in DOMAIN ss |->
             IF \A h \in Range(hits) : h[1] # n THEN ss[n]
             ELSE [ss[n] EXCEPT !.body = Written(@, SetAddress(At(n), q), LeCells(v, q.slot.width))]])
set_value(ss, q, v) ==
  IF q = NoQuestion \/ ~validate_set_value(q, v) \/ ~InStore(q) THEN Err(ss)
  ELSE SetIn(ss, q, v, collect_std_defaults_hits(ss, q.store.name, q.store.size))
=============================================================================
