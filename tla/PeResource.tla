----------------------------- MODULE PeResource -----------------------------
(* The HII package list in the resource section of a PE image               *)
(* (hii/pe_resource.rs, package_list.rs) and the edits that make it longer. *)
(* A file is a sequence of cells, an offset is the index of a cell. Its     *)
(* headers are a record:                                                    *)
(*   secs    sections [va, vsize, raw, ptr]  (raw: size, ptr: first cell)   *)
(*   rva     the resource directory          dirs  the other directories    *)
(*   cert    whether it is signed            fa, sa  alignments             *)
(*   size    size of the loaded image        leaves [hii, rva, size]        *)
(* A package list is a total length, packages [length, kind, ...] and an    *)
(* END package [2, END_KIND].                                               *)
EXTENDS Integers, Sequences, SequencesExt, FiniteSets

FORMS == 2
STRINGS == 4
END_KIND == 9
LIST_HEADER == 1
PACKAGE_HEADER == 2

CeilTo(n, a) == ((n + a - 1) \div a) * a
MaxOf(S) == CHOOSE x \in S : \A y \in S : y <= x
MinOf(S) == CHOOSE x \in S : \A y \in S : x <= y
PlusUpTo(a, b) == IF a - b > 0 THEN a - b ELSE 0

(***************************************************************************)
(* Package lists.                                                          *)
(***************************************************************************)
NoList == [ok |-> FALSE, pkgs |-> <<>>]

(* The packages from pos on, up to the END package. *)
RECURSIVE PackagesFrom(_, _, _)
PackagesFrom(blob, pos, acc) ==
  IF pos + PACKAGE_HEADER - 1 > Len(blob) THEN NoList
  ELSE IF blob[pos + 1] = END_KIND THEN [ok |-> TRUE, pkgs |-> acc]
  ELSE IF blob[pos] < PACKAGE_HEADER \/ pos + blob[pos] - 1 > Len(blob) THEN NoList
  ELSE PackagesFrom(blob, pos + blob[pos], Append(acc, [at |-> pos, len |-> blob[pos], kind |-> blob[pos + 1]]))

parse_package_list(blob) == IF Len(blob) < LIST_HEADER THEN NoList ELSE PackagesFrom(blob, LIST_HEADER + 1, <<>>)

PackageBytes(blob, p) == SubSeq(blob, p.at, p.at + p.len - 1)

(***************************************************************************)
(* Where things are.                                                       *)
(***************************************************************************)
InSpan(rva, va, n) == rva >= va /\ rva - va < n
Least2(a, b) == IF a < b THEN a ELSE b
Most2(a, b) == IF a < b THEN b ELSE a

(* The first section that holds the address in its file part; 0 if none. *)
SectionAt(pe, rva) ==
  LET in == {i \in DOMAIN pe.secs : InSpan(rva, pe.secs[i].va, Least2(pe.secs[i].vsize, pe.secs[i].raw))}
  IN  IF in = {} THEN 0 ELSE MinOf(in)
OffsetAt(pe, rva) == pe.secs[SectionAt(pe, rva)].ptr + rva - pe.secs[SectionAt(pe, rva)].va
AvailAt(pe, rva) ==
  LET s == pe.secs[SectionAt(pe, rva)] IN Least2(s.vsize, s.raw) - (rva - s.va)

(* The leaves whose data is in the file: off and len. *)
resource_leaf_locations(pe) ==
  LET held == SelectSeq([n \in DOMAIN pe.leaves |-> n], LAMBDA n : SectionAt(pe, pe.leaves[n].rva) # 0)
      Leaf(n) == LET l == pe.leaves[n]
                 IN  [n |-> n, hii |-> l.hii, rva |-> l.rva, off |-> OffsetAt(pe, l.rva), len |-> Least2(l.size, AvailAt(pe, l.rva))]
  IN  IF SectionAt(pe, pe.rva) = 0 THEN <<>> ELSE [k \in DOMAIN held |-> Leaf(held[k])]

hii_entries(pe) == SelectSeq(resource_leaf_locations(pe), LAMBDA l : l.hii)

BlobAt(pe, l) == SubSeq(pe.file, l.off, l.off + l.len - 1)
ListIn(pe, entries) == IF entries = <<>> THEN NoList ELSE parse_package_list(BlobAt(pe, entries[1]))
HiiList(pe) == ListIn(pe, hii_entries(pe))

(* The one section the resources are in; 0 if the headers leave a doubt.   *)
resolve_rsrc_section(pe) ==
  LET wide   == {i \in DOMAIN pe.secs : InSpan(pe.rva, pe.secs[i].va, Most2(pe.secs[i].vsize, pe.secs[i].raw))}
      narrow == SectionAt(pe, pe.rva)
  IN  IF Cardinality(wide) # 1 \/ (narrow # 0 /\ narrow \notin wide) THEN 0 ELSE MinOf(wide)

RawEnd(s) == s.ptr + s.raw
rsrc_raw_end(pe) == RawEnd(pe.secs[resolve_rsrc_section(pe)])
rsrc_virt_end(pe) == LET s == pe.secs[resolve_rsrc_section(pe)] IN s.va + s.vsize
last_raw_end(pe) == MaxOf({1} \cup {RawEnd(pe.secs[i]) : i \in {j \in DOMAIN pe.secs : pe.secs[j].raw > 0}})

(***************************************************************************)
(* A longer resource section: the sections behind it move, in the file by  *)
(* whole file units, in memory by whole section units.                     *)
(***************************************************************************)
WithRaw(pe) == {i \in DOMAIN pe.secs : pe.secs[i].raw > 0}
Overlap(a, b) == a.ptr < RawEnd(b) /\ b.ptr < RawEnd(a)

can_grow_rsrc_tail(pe, delta) ==
  LET r == resolve_rsrc_section(pe)
  IN  \/ delta = 0
      \/ /\ pe.rva # 0 /\ ~pe.cert /\ r # 0
         /\ \A i, j \in WithRaw(pe) : i # j => ~Overlap(pe.secs[i], pe.secs[j])
         /\ Len(pe.file) + 1 = last_raw_end(pe)
         /\ \A i \in WithRaw(pe) \ {r} : (pe.secs[i].ptr >= rsrc_raw_end(pe)) <=> (pe.secs[i].va > pe.secs[r].va)

VirtShift(pe, delta) == CeilTo(delta, pe.sa)

(* Mutant: the directories are not moved with their sections. *)
DirAfter_kept(pe, d, delta) == d

(* A directory inside a section that moves moves with it. *)
DirAfter(pe, d, delta) ==
  LET r == resolve_rsrc_section(pe)
  IN  IF d # 0 /\ \E i \in DOMAIN pe.secs : pe.secs[i].va > pe.secs[r].va /\ InSpan(d, pe.secs[i].va, pe.secs[i].vsize)
      THEN d + VirtShift(pe, delta) ELSE d

try_grow_rsrc_tail(pe, delta) ==
  IF delta = 0 THEN pe
  ELSE LET r      == resolve_rsrc_section(pe)
           pad    == CeilTo(delta, pe.fa)
           vshift == VirtShift(pe, delta)
           Behind(i)  == i # r /\ pe.secs[i].raw > 0 /\ pe.secs[i].ptr >= rsrc_raw_end(pe)
           MovedTo(c) == \E i \in DOMAIN pe.secs : Behind(i) /\ InSpan(c, pe.secs[i].ptr + pad, pe.secs[i].raw)
           Cell(c)    == IF InSpan(c, rsrc_raw_end(pe), pad) THEN 0
                         ELSE IF MovedTo(c) THEN pe.file[c - pad]
                         ELSE IF c <= Len(pe.file) THEN pe.file[c] ELSE 0
           Sec(i)     == LET s == pe.secs[i]
                         IN  IF i = r THEN [s EXCEPT !.vsize = @ + pad, !.raw = @ + pad]
                             ELSE [s EXCEPT !.va = IF @ > pe.secs[r].va THEN @ + vshift ELSE @,
                                            !.ptr = IF Behind(i) THEN @ + pad ELSE @]
           secs       == [i \in DOMAIN pe.secs |-> Sec(i)]
           Extent(i)  == secs[i].va + (IF i = r THEN secs[i].vsize ELSE Most2(secs[i].vsize, secs[i].raw))
       IN  [pe EXCEPT !.file = [c \in 1..(Len(pe.file) + pad) |-> Cell(c)], !.secs = secs,
                      !.dirs = [d \in DOMAIN pe.dirs |-> DirAfter(pe, pe.dirs[d], delta)],
                      !.size = CeilTo(MaxOf({Extent(i) : i \in DOMAIN secs}), pe.sa)]

(***************************************************************************)
(* A longer list. The first HII leaf is the one that grows; no other leaf  *)
(* may be behind it.                                                       *)
(***************************************************************************)
(* Cells the section must grow for `added` more in the blob; -1: refused.  *)
GrowthOf(pe, target, added) ==
  IF \/ \E l \in Range(resource_leaf_locations(pe)) : l.n # target.n /\ l.off + l.len > target.off
     \/ Len(pe.file) + 1 # last_raw_end(pe)
  THEN -1
  ELSE Most2(PlusUpTo(target.off + target.len + added, rsrc_raw_end(pe)),
             PlusUpTo(target.rva + target.len + added, rsrc_virt_end(pe)))
plan_rsrc_blob_growth(pe, added) ==
  IF hii_entries(pe) = <<>> \/ resolve_rsrc_section(pe) = 0 THEN -1 ELSE GrowthOf(pe, hii_entries(pe)[1], added)

write_length_chain(pe, leaf, off, entry_size, total) ==
  [pe EXCEPT !.leaves[leaf].size = entry_size, !.file[off] = total]

Total(list, added) ==
  LIST_HEADER + FoldLeft(LAMBDA n, p : n + p.len, 0, list.pkgs) + added + PACKAGE_HEADER

(* copy_within: cells from..to-1 to the place `at`, which overlaps them. *)
Moved(file, from, to, at) == [c \in DOMAIN file |-> IF InSpan(c, at, to - from) THEN file[c - at + from] ELSE file[c]]
Put(file, at, cells) == [c \in DOMAIN file |-> IF InSpan(c, at, Len(cells)) THEN cells[c - at + 1] ELSE file[c]]

ResultOk(pe) == [ok |-> TRUE, pe |-> pe]
ResultErr(pe) == [ok |-> FALSE, pe |-> pe]

package_len(pkg) == Len(pkg) >= PACKAGE_HEADER /\ pkg[1] = Len(pkg) /\ pkg[2] # END_KIND

(* A package at the end of the list: the END package and what is behind it *)
(* up to the end of the section moves back.                                *)
EndMoved(pe, pkg, l, total, at, tail, grow) ==
  IF at > tail \/ ~can_grow_rsrc_tail(pe, grow) THEN ResultErr(pe)
  ELSE ResultOk(write_length_chain(
         [try_grow_rsrc_tail(pe, grow) EXCEPT !.file = Put(Moved(@, at, tail, at + Len(pkg)), at, pkg)],
         l.n, l.off, l.len + Len(pkg), total + Len(pkg)))
AppendBehind(pe, pkg, l, total, grow) ==
  EndMoved(pe, pkg, l, total, l.off + total - PACKAGE_HEADER, rsrc_raw_end(pe) + grow - Len(pkg), grow)
AppendIn(pe, pkg, list, grow) ==
  IF ~package_len(pkg) \/ grow = -1 \/ ~list.ok THEN ResultErr(pe)
  ELSE AppendBehind(pe, pkg, hii_entries(pe)[1], Total(list, 0), grow)
append_package_to_resource(pe, pkg) == AppendIn(pe, pkg, HiiList(pe), plan_rsrc_blob_growth(pe, Len(pkg)))

(* The first package of a kind; the callers differ in which they edit. *)
PackageOf(pe, kind) ==
  Head(SelectSeq(HiiList(pe).pkgs, LAMBDA p : p.kind = kind) \o <<[at |-> 0, len |-> 0, kind |-> 0]>>)
resource_forms_package(pe) == PackageOf(pe, FORMS)

BehindPackage(file, from, to, at) == Moved(file, from, to, at)

(* A package replaced by a longer one: what is behind it in the blob moves *)
(* back, the rest of the section stays.                                    *)
SplicedAt(pe, p, pkg, l, at, big) ==
  ResultOk(write_length_chain(
    [big EXCEPT !.file = Put(BehindPackage(@, at + p.len, l.off + l.len, at + Len(pkg)), at, pkg)],
    l.n, l.off, l.len + Len(pkg) - p.len, Total(HiiList(pe), Len(pkg) - p.len)))
SpliceIn(pe, p, pkg, l, grow) ==
  IF grow = -1 \/ ~can_grow_rsrc_tail(pe, grow) THEN ResultErr(pe)
  ELSE SplicedAt(pe, p, pkg, l, l.off + p.at - 1, try_grow_rsrc_tail(pe, grow))
splice_into_resource(pe, p, pkg) ==
  IF p.at = 0 THEN ResultErr(pe)
  ELSE SpliceIn(pe, p, pkg, hii_entries(pe)[1], plan_rsrc_blob_growth(pe, Len(pkg) - p.len))

(***************************************************************************)
(* The component: an image, and the packages its edits should have left.   *)
(***************************************************************************)
CONSTANTS PeImages,    \* the images to start from
          NewPackages, \* packages that are appended
          MaxFile      \* bound: no edit once the file is longer

VARIABLES pe, list
peVars == <<pe, list>>

Packages(p) == LET ps == HiiList(p) IN [k \in DOMAIN ps.pkgs |-> PackageBytes(BlobAt(p, hii_entries(p)[1]), ps.pkgs[k])]

PeInit == pe \in PeImages /\ list = Packages(pe)

(* hii formset add, package appended to the list *)
AppendPackage(pkg) ==
  /\ Len(pe.file) <= MaxFile
  /\ \E r \in {append_package_to_resource(pe, pkg)} : pe' = r.pe /\ list' = IF r.ok THEN Append(list, pkg) ELSE list

(* n cells more in the first form or string package: questions, stores and *)
(* forms, or strings.                                                      *)
Longer(old, kind, n) == <<Len(old) + n, kind>> \o SubSeq(old, 3, Len(old)) \o [j \in 1..n |-> 7]
GrowPackage(kind, n) ==
  /\ Len(pe.file) <= MaxFile
  /\ \E p \in {PackageOf(pe, kind)} :
     \E new \in {Longer(PackageBytes(BlobAt(pe, hii_entries(pe)[1]), p), kind, n)} :
     \E r \in {splice_into_resource(pe, p, new)} :
       /\ pe' = r.pe
       /\ list' = IF r.ok THEN [list EXCEPT ![MinOf({j \in DOMAIN list : list[j][2] = kind})] = new] ELSE list

PeNext == (\E pkg \in NewPackages : AppendPackage(pkg)) \/ (\E kind \in {FORMS, STRINGS}, n \in 1..3 : GrowPackage(kind, n))
PeSpec == PeInit /\ [][PeNext]_peVars

(* The list in the file is the one the edits should have left: a shift or  *)
(* a length of append_package_to_resource or of a splice that is off by    *)
(* one loses a package or the END, and the whole list with it.             *)
ListIsKept(p, l) == HiiList(p).ok /\ Packages(p) = l /\ p.file[hii_entries(p)[1].off] = Total(HiiList(p), 0)

(* Sections do not run into each other, neither in the file nor in memory, *)
(* however often the resource section is grown.                            *)
SectionsApart(p) ==
  \A i, j \in DOMAIN p.secs : i # j =>
    /\ p.secs[i].raw > 0 /\ p.secs[j].raw > 0 => ~Overlap(p.secs[i], p.secs[j])
    /\ p.secs[i].va < p.secs[j].va => p.secs[i].va + p.secs[i].vsize <= p.secs[j].va
    /\ p.secs[i].va + p.secs[i].vsize <= p.size

(* Growing the resources changes no other section's contents, and every    *)
(* directory still names the same cell of the same section.                *)
OthersFollow ==
   LET r == resolve_rsrc_section(pe)
       Cells(p, i) == SubSeq(p.file, p.secs[i].ptr, RawEnd(p.secs[i]) - 1)
       Place(p, d) == {<<i, d - p.secs[i].va>> : i \in {j \in DOMAIN p.secs : InSpan(d, p.secs[j].va, p.secs[j].vsize)}}
   IN  /\ \A i \in DOMAIN pe.secs \ {r} : Cells(pe', i) = Cells(pe, i)
       /\ \A d \in DOMAIN pe.dirs : Place(pe', pe'.dirs[d]) = Place(pe, pe.dirs[d])
       /\ \A l \in DOMAIN pe.leaves : ~pe.leaves[l].hii => pe'.leaves[l] = pe.leaves[l]

(* However often the resource section grows, the list of packages in it is *)
(* whole, sections stay apart, and what is in the others stays and is      *)
(* found (rsrc_grow_plan, append_package_to_resource).                     *)
ResourcesGrow == [][ListIsKept(pe', list') /\ SectionsApart(pe') /\ OthersFollow]_peVars
=============================================================================
