------------------------------ MODULE FfsImage ------------------------------
(***************************************************************************)
(* The firmware image as bytes and as a tree: crates/uefi-engine's parser  *)
(* (bytes to FfsNode tree) and builder (tree to bytes).                    *)
(*                                                                         *)
(* A buffer is a sequence of cells, a cell standing for two bytes: FFS     *)
(* files start at multiples of 8 bytes (4 cells), sections at multiples of *)
(* 4 (2 cells), and the tail of a revision 1 file is one cell.  A header   *)
(* is one cell that carries the fields the code reads back (four for a     *)
(* volume, so that its length is a multiple of 8 as FvLength always is); a *)
(* large header is that cell with all bits of its size set and a second    *)
(* cell with the size;                                                     *)
(* every other cell is raw data or fill.  Raw data never looks like a      *)
(* header.  Compression is external: a stream carries what it decodes to,  *)
(* and its length is about half of that.                                   *)
(***************************************************************************)
EXTENDS Integers, Sequences, FiniteSets, SequencesExt

CONSTANT SizeLimit    \* the 24-bit size field of a small header: sizes are kept modulo this

ASSUME SizeLimitAssumption == SizeLimit \in Nat \ {0}

FFS_ALIGN == 4
SECTION_ALIGN == 2
FVH_SCAN_STEP == 8

Fill(b) == [k |-> "fill", byte |-> b]
Raw(x) == [k |-> "raw", v |-> x]
FvHeader(len, pol, rev) == <<[k |-> "fvh", len |-> len, pol |-> pol, rev |-> rev]>> \o [i \in 1..3 |-> Raw("fvh")]
FfsHeader(guid, size, attr) ==
    <<[k |-> "ffs", guid |-> guid, size |-> size, hsum |-> size, attr |-> attr, dsum |-> <<>>, state |-> "F8"]>>
SectionHeader(sub, size) == <<[k |-> "sec", sub |-> sub, size |-> size]>>
AllOnes == SizeLimit - 1
Extended(hdr, size) == <<[hdr[1] EXCEPT !.size = AllOnes], [k |-> "ext", size |-> size]>>
Prefix(alg) == <<[k |-> "prefix", alg |-> alg]>>

Fills(b, n) == [i \in 1..n |-> Fill(b)]
align_up(n, a) == ((n + a - 1) \div a) * a
pad_to(buf, n, b) == IF Len(buf) < n THEN buf \o Fills(b, n - Len(buf)) ELSE buf

(***************************************************************************)
(* Compression (liblzma, lzma-rs and the Tiano decoder).  A stream decodes *)
(* whether or not fill follows it; only what liblzma writes is LZMA.       *)
(***************************************************************************)
StreamLen(data) == 1 + Len(data) \div 2
Stream(alg, data) == <<[k |-> "strm", alg |-> alg, of |-> data]>> \o [i \in 1..(StreamLen(data) - 1) |-> Raw("strm")]

decompress(payload, alg) ==
    IF alg = "none" THEN [ok |-> TRUE, data |-> payload]
    ELSE IF Len(payload) > 0 /\ payload[1].k = "strm" /\ payload[1].alg = alg
         THEN [ok |-> TRUE, data |-> payload[1].of]
         ELSE [ok |-> FALSE, data |-> <<>>]

(* The sweep returns the first stream within the budget, padded to it, and *)
(* otherwise the smallest; both decode to the input.                       *)
compress_lzma_fit(data, budget) == pad_to(Stream("lzma", data), budget, 0)

(***************************************************************************)
(* FfsNode.  parsing_data is kept in pd.                                   *)
(***************************************************************************)
NoData == [k |-> "none"]
FfsNode(type, sub, guid, off, hdr, body, tail, kids, pd) ==
    [type |-> type, sub |-> sub, guid |-> guid, off |-> off, hdr |-> hdr, body |-> body,
     tail |-> tail, kids |-> kids, act |-> "NoAction", pd |-> pd]
NoGuid == "none"
NodeLen(n) == Len(n.hdr) + Len(n.body) + Len(n.tail)

make_padding_node(buf, start, end) ==
    FfsNode("Padding", "none", NoGuid, start, <<>>, SubSeq(buf, start + 1, end), <<>>, <<>>, NoData)

NotParsed == [ok |-> FALSE]

(* is_large_ffs, is_large_section: all bits of the size are set, and there *)
(* is room for the larger header. Its second cell is read as a size,       *)
(* whatever it is; raw data read so is no size that fits.                  *)
is_large(buf, off) == off + 2 <= Len(buf) /\ buf[off + 1].size = AllOnes
HeaderAt(buf, off) == SubSeq(buf, off + 1, off + (IF is_large(buf, off) THEN 2 ELSE 1))
StatedSize(hdr) == IF Len(hdr) = 1 THEN hdr[1].size ELSE IF hdr[2].k = "ext" THEN hdr[2].size ELSE 0

(* A file at an offset (from 0): its header, the size the header states,   *)
(* and in a revision 1 volume a tail.                                      *)
FileAt(buf, off, hdr, size, tail) ==
    IF off + size > Len(buf) \/ size < Len(hdr) THEN NotParsed
    ELSE [ok |-> TRUE,
          node |-> FfsNode("File", "none", hdr[1].guid, off, hdr,
                           SubSeq(buf, off + Len(hdr) + 1, off + size - tail),
                           SubSeq(buf, off + size - tail + 1, off + size), <<>>, NoData)]
parse_file(buf, off, rev) ==
    IF off + 1 > Len(buf) \/ buf[off + 1].k # "ffs" THEN NotParsed
    ELSE FileAt(buf, off, HeaderAt(buf, off), StatedSize(HeaderAt(buf, off)), IF rev = 1 THEN 1 ELSE 0)

(* Which decoder a GUID-defined section names: both LZMA variants decode,  *)
(* only one of them can be written again; a CRC section is not decoded.    *)
guided_algorithm(alg) == CASE alg \in {"lzma", "lzmaf86"} -> "lzma" [] alg = "tiano" -> "tiano" [] OTHER -> "unknown"
is_recompressable_lzma_guid(alg) == alg = "lzma"

(* A volume at an offset: its geometry, its erase polarity and revision.   *)
parse_volume(buf, off) ==
    IF off + 4 > Len(buf) \/ buf[off + 1].k # "fvh" THEN NotParsed
    ELSE LET h == buf[off + 1] IN
         IF h.len < 4 \/ off + h.len > Len(buf) THEN NotParsed
         ELSE [ok |-> TRUE,
               node |-> FfsNode("Volume", "none", NoGuid, off, SubSeq(buf, off + 1, off + 4),
                                SubSeq(buf, off + 5, off + h.len), <<>>, <<>>,
                                [k |-> "vol", pol |-> h.pol, rev |-> h.rev])]

RECURSIVE parse_sections(_, _), parse_volume_files(_, _, _, _, _)

parse_firmware_volume(buf, off) ==
    LET v == parse_volume(buf, off) IN
    IF ~v.ok THEN v
    ELSE [v EXCEPT !.node.kids = parse_volume_files(v.node.body, 0, off + 4, v.node.pd.pol, v.node.pd.rev)]

(* Files at 8-byte boundaries of the volume's body until an erased header, *)
(* the end, or a header that does not parse.                               *)
parse_volume_files(body, from, bodyStart, erase, rev) ==
    LET foff == align_up(from, FFS_ALIGN) IN
    IF foff + 1 > Len(body) \/ body[foff + 1] = Fill(erase) THEN <<>>
    ELSE LET f == parse_file(body, foff, rev) IN
         IF ~f.ok THEN <<>>
         ELSE <<[f.node EXCEPT !.off = bodyStart + foff, !.kids = parse_sections(f.node.body, 0)]>>
              \o parse_volume_files(body, foff + NodeLen(f.node), bodyStart, erase, rev)

(* What a section holds: the sections of a decoded payload, or the one     *)
(* volume that fills it. The payload of a GUID-defined section is looked   *)
(* for as if the header were a small one, behind a large one too late.     *)
guided_payload(hdr, body) == SubSeq(body, IF Len(hdr) = 1 THEN 2 ELSE 4, Len(body))
SectionKids(hdr, body) ==
    LET sub == hdr[1].sub IN
    CASE sub = "guid" /\ Len(body) > 0 /\ body[1].k = "prefix" ->
            LET d == decompress(guided_payload(hdr, body), guided_algorithm(body[1].alg))
            IN IF d.ok THEN parse_sections(d.data, 0) ELSE <<>>
      [] sub = "comp" /\ Len(body) > 1 /\ body[1].k = "prefix" ->
            LET d == decompress(Tail(body), body[1].alg)
            IN IF d.ok THEN parse_sections(d.data, 0) ELSE <<>>
      [] sub = "fv" ->
            LET v == parse_firmware_volume(body, 0)
            IN IF v.ok /\ NodeLen(v.node) = Len(body) THEN <<v.node>> ELSE <<>>
      [] OTHER -> <<>>

SectionOf(hdr, body, off) ==
    FfsNode("Section", hdr[1].sub, NoGuid, off, hdr, body, <<>>, SectionKids(hdr, body),
            IF hdr[1].sub = "guid" /\ Len(body) > 0 /\ body[1].k = "prefix"
            THEN [k |-> "gs", alg |-> body[1].alg] ELSE NoData)
parse_section(buf, off) ==
    LET hdr == HeaderAt(buf, off)
    IN  SectionOf(hdr, SubSeq(buf, off + Len(hdr) + 1, off + StatedSize(hdr)), off)

parse_sections(buf, off) ==
    IF off + 1 > Len(buf) \/ buf[off + 1].k # "sec" THEN <<>>
    ELSE LET size == StatedSize(HeaderAt(buf, off)) IN
         IF size < Len(HeaderAt(buf, off)) \/ off + size > Len(buf) THEN <<>>
         ELSE <<parse_section(buf, off)>> \o parse_sections(buf, off + align_up(size, SECTION_ALIGN))

(***************************************************************************)
(* parse_image: with a flash descriptor, regions in order of offset, the   *)
(* BIOS region scanned for volumes and the others kept whole; without one, *)
(* the whole buffer is scanned.  What is between goes into padding nodes.  *)
(***************************************************************************)

(* The volumes from off to the end of the window: [kids, end].             *)
RECURSIVE scan_volumes(_, _, _, _, _)
scan_volumes(buf, off, end, kids, lastEnd) ==
    IF off + 4 > end THEN [kids |-> kids, end |-> lastEnd]
    ELSE LET v == parse_firmware_volume(buf, off) IN
         IF ~v.ok THEN scan_volumes(buf, off + FVH_SCAN_STEP, end, kids, lastEnd)
         ELSE LET stop == off + NodeLen(v.node)
                  gap == IF off > lastEnd THEN <<make_padding_node(buf, lastEnd, off)>> ELSE <<>>
              IN scan_volumes(buf, stop, end, kids \o gap \o <<v.node>>, stop)

(* The regions of a descriptor cell, the ones outside the image left out.  *)
(* Without a BIOS region the descriptor is ignored.                        *)
parse_flash_regions(buf) ==
    IF Len(buf) = 0 \/ buf[1].k # "descriptor" THEN <<>>
    ELSE LET all == <<[kind |-> "Descriptor", off |-> 0, size |-> 1]>>
                    \o SelectSeq(buf[1].regions, LAMBDA r : r.off + r.size <= Len(buf))
         IN IF \E i \in DOMAIN all : all[i].kind = "Bios" THEN all ELSE <<>>

(* The partitions the table at the start of the ME region names, cut to    *)
(* the region; they are never written back.                                *)
fpt_children(body, off) ==
    IF Len(body) = 0 \/ body[1].k # "fpt" THEN <<>>
    ELSE LET parts == SelectSeq(body[1].parts, LAMBDA p : p.size > 0 /\ p.off < Len(body)) IN
         [i \in DOMAIN parts |->
            FfsNode("Region", "none", NoGuid, off + parts[i].off, <<>>,
                    SubSeq(body, parts[i].off + 1,
                           IF parts[i].off + parts[i].size > Len(body) THEN Len(body)
                           ELSE parts[i].off + parts[i].size),
                    <<>>, <<>>, [k |-> "region", kind |-> "Fpt"])]

make_region_node(buf, r) ==
    LET body == SubSeq(buf, r.off + 1, r.off + r.size) IN
    FfsNode("Region", "none", NoGuid, r.off, <<>>, body, <<>>,
            IF r.kind = "Me" THEN fpt_children(body, r.off) ELSE <<>>, [k |-> "region", kind |-> r.kind])

RECURSIVE place_regions(_, _, _, _)
place_regions(buf, regions, kids, lastEnd) ==
    IF regions = <<>> THEN [kids |-> kids, end |-> lastEnd]
    ELSE LET r == Head(regions)
             gap == IF r.off > lastEnd THEN <<make_padding_node(buf, lastEnd, r.off)>> ELSE <<>>
             \* the gap in front of a BIOS region does not move lastEnd: the scan pads again from there
             s == IF r.kind = "Bios"
                  THEN scan_volumes(buf, r.off, r.off + r.size, kids \o gap, lastEnd)
                  ELSE [kids |-> kids \o gap \o <<make_region_node(buf, r)>>, end |-> r.off + r.size]
         IN place_regions(buf, Tail(regions), s.kids, s.end)

ImageNode(buf, s) ==
    FfsNode("Image", "none", NoGuid, 0, <<>>, <<>>, <<>>,
            s.kids \o (IF Len(buf) > s.end THEN <<make_padding_node(buf, s.end, Len(buf))>> ELSE <<>>), NoData)

parse_image(buf) ==
    LET regions == SortSeq(parse_flash_regions(buf), LAMBDA a, b : a.off < b.off) IN
    ImageNode(buf, IF regions = <<>> THEN scan_volumes(buf, 0, Len(buf), <<>>, 0)
                                     ELSE place_regions(buf, regions, <<>>, 0))

(***************************************************************************)
(* build_image.  A node nobody edited is written as it was read; an edited *)
(* one is written again from its children, sizes and checksums recomputed. *)
(* A result is [ok, out] or [ok, err].                                     *)
(***************************************************************************)
Built(out) == [ok |-> TRUE, out |-> out, err |-> "none"]
Refused(err) == [ok |-> FALSE, out |-> <<>>, err |-> err]
Verbatim(n) == n.hdr \o n.body \o n.tail

is_compressed_or_guided(n) == n.sub \in {"comp", "guid"}

RECURSIVE subtree_dirty(_)
subtree_dirty(n) == n.act # "NoAction" \/ \E i \in DOMAIN n.kids : subtree_dirty(n.kids[i])

RECURSIVE build_node(_), build_children(_, _, _), build_volume_files(_, _, _)

(* Mutant: the last child is padded too. *)
build_children_padded(kids, i, buf) ==
    IF i > Len(kids) THEN Built(buf)
    ELSE LET b == build_node(kids[i]) IN
         IF ~b.ok THEN b
         ELSE build_children(kids, i + 1, pad_to(buf \o b.out, align_up(Len(buf \o b.out), SECTION_ALIGN), 0))

(* The children one after the other, each but the last padded to a         *)
(* section boundary.                                                       *)
build_children(kids, i, buf) ==
    IF i > Len(kids) THEN Built(buf)
    ELSE LET b == build_node(kids[i]) IN
         IF ~b.ok THEN b
         ELSE build_children(kids, i + 1,
                IF i < Len(kids) THEN pad_to(buf \o b.out, align_up(Len(buf \o b.out), SECTION_ALIGN), 0)
                ELSE buf \o b.out)

build_volume_files(n, i, out) ==
    IF i > Len(n.kids) THEN Built(out)
    ELSE IF n.kids[i].act = "Remove" THEN build_volume_files(n, i + 1, out)
    ELSE LET b == build_node(n.kids[i]) IN
         IF ~b.ok THEN b
         ELSE build_volume_files(n, i + 1, pad_to(out, align_up(Len(out), FFS_ALIGN), n.pd.pol) \o b.out)

build_volume(n) ==
    IF n.act = "Remove" THEN Built(<<>>)
    ELSE IF n.act = "NoAction" THEN Built(Verbatim(n))
    ELSE LET b == build_volume_files(n, 1, n.hdr) IN
         IF ~b.ok THEN b
         ELSE IF Len(b.out) > Len(n.hdr) + Len(n.body) THEN Refused("SizeMismatch")
         ELSE Built(pad_to(b.out, Len(n.hdr) + Len(n.body), n.pd.pol) \o n.tail)

(* The size field of a small header keeps its 24 bits, a large header has  *)
(* room for every size; no header changes its kind. The header checksum    *)
(* covers the size, the data checksum is written only for a file whose     *)
(* attributes ask for it.                                                  *)
WithSize(hdr, total) ==
    IF Len(hdr) = 1 THEN [hdr EXCEPT ![1].size = total % SizeLimit] ELSE Extended(hdr, total)
set_ffs_size(hdr, total) == WithSize(hdr, total)
recompute_ffs_checksums(hdr, body) ==
    [hdr EXCEPT ![1].hsum = StatedSize(hdr), ![1].dsum = IF hdr[1].attr = "checksum" THEN body ELSE @]
set_section_size(hdr, total) == WithSize(hdr, total)

BodyOf(n) == IF n.kids = <<>> THEN Built(n.body) ELSE build_children(n.kids, 1, <<>>)

(* Mutant: a file nobody edited is written again like the others. *)
build_file_always(n) ==
    IF n.act = "Remove" THEN Built(<<>>)
    ELSE LET b == BodyOf(n) IN
         IF ~b.ok THEN b
         ELSE LET hdr == set_ffs_size(n.hdr, Len(n.hdr) + Len(b.out) + Len(n.tail))
              IN Built(recompute_ffs_checksums(hdr, b.out) \o b.out \o n.tail)

build_file(n) ==
    IF n.act = "Remove" THEN Built(<<>>)
    ELSE IF n.act = "NoAction" THEN Built(Verbatim(n))
    ELSE LET b == BodyOf(n) IN
         IF ~b.ok THEN b
         ELSE LET hdr == set_ffs_size(n.hdr, Len(n.hdr) + Len(b.out) + Len(n.tail))
              IN Built(recompute_ffs_checksums(hdr, b.out) \o b.out \o n.tail)

build_recompressed_guided(n) ==
    IF Len(n.body) < 1 THEN Refused("RecompressionUnsupported")
    ELSE LET b == build_children(n.kids, 1, <<>>) IN
         IF ~b.ok THEN b
         ELSE IF b.out = <<>> THEN Refused("EmptyInput")
         ELSE LET stream == compress_lzma_fit(b.out, Len(n.body) - 1)
              IN Built(set_section_size(n.hdr, Len(n.hdr) + 1 + Len(stream)) \o <<n.body[1]>> \o stream)

build_section(n) ==
    IF n.act = "Remove" THEN Built(<<>>)
    ELSE IF is_compressed_or_guided(n) THEN
        IF n.act = "NoAction" /\ ~subtree_dirty(n) THEN Built(Verbatim(n))
        ELSE IF n.sub = "guid" /\ n.pd.k = "gs" /\ n.kids # <<>>
             THEN IF is_recompressable_lzma_guid(n.pd.alg) THEN build_recompressed_guided(n)
                  ELSE Refused("RecompressionUnsupported")
             ELSE Refused("RecompressionUnsupported")
    ELSE IF n.act = "NoAction" THEN Built(Verbatim(n))
    ELSE LET b == BodyOf(n) IN
         IF ~b.ok THEN b ELSE Built(set_section_size(n.hdr, Len(n.hdr) + Len(b.out)) \o b.out)

build_node(n) ==
    CASE n.type = "Volume" -> build_volume(n)
      [] n.type = "File" -> build_file(n)
      [] n.type = "Section" -> build_section(n)
      [] OTHER -> Built(n.body)

(* The root: every child at its own offset, later ones over earlier ones,  *)
(* what no child covers erased.                                            *)
RECURSIVE overlay(_, _, _)
overlay(kids, i, out) ==
    IF i > Len(kids) THEN Built(out)
    ELSE LET b == build_node(kids[i]) IN
         IF ~b.ok THEN b
         ELSE LET off == kids[i].off
                  wide == pad_to(out, off + Len(b.out), 255)
              IN overlay(kids, i + 1, SubSeq(wide, 1, off) \o b.out
                                      \o SubSeq(wide, off + Len(b.out) + 1, Len(wide)))
build_image(root) == overlay(root.kids, 1, <<>>)

(***************************************************************************)
(* The counts a flush is validated with.                                   *)
(***************************************************************************)
RECURSIVE count_files(_), count_live_files(_), volume_count(_)
SumKids(kids, F(_)) == FoldSeq(LAMBDA k, n : n + F(k), 0, kids)
One(b) == IF b THEN 1 ELSE 0
count_files(n) == One(n.type = "File") + SumKids(n.kids, count_files)
count_live_files(n) == IF n.act = "Remove" THEN 0
                       ELSE One(n.type = "File") + SumKids(n.kids, count_live_files)
volume_count(n) == One(n.type = "Volume") + SumKids(n.kids, volume_count)
=============================================================================
