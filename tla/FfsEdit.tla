------------------------------ MODULE FfsEdit ------------------------------
(***************************************************************************)
(* Editing a firmware image (crates/uefi-engine ops.rs, parser/target.rs): *)
(* a target is resolved to a path in the tree, the edit marks the nodes    *)
(* from the root down to it, and the flush writes the tree back, reads it  *)
(* again and replaces the tree by what it read.  A flush that is refused   *)
(* leaves the edited tree in memory, and the next edit works on that.      *)
(***************************************************************************)
EXTENDS FfsImage

CONSTANTS Images,        \* the stored images a behaviour may start from
          Payloads,      \* bytes an edit may bring: whole files and bodies
          Targets,       \* the targets an edit may name
          MaxEdits       \* bound on the edits of a behaviour

(* What parse_target makes of a request: a path of at least one index, a   *)
(* GUID, or a GUID with a section type and perhaps an index.               *)
IsTarget(t) == /\ t.k \in {"path", "guid", "section"}
               /\ t.k = "path" => t.path # <<>> /\ \A i \in DOMAIN t.path : t.path[i] \in Nat
               /\ t.k = "section" => t.index \in Nat \cup {-1}
ASSUME TargetsAssumption == \A t \in Targets : IsTarget(t)

VARIABLES root,     \* the cached tree of the image
          disk,     \* the stored image
          edits,    \* how many edits were made
          last      \* the last step, its result and its target: [op, res, at]

vars == <<root, disk, edits, last>>

(***************************************************************************)
(* Targets: a path (indices from 0), a file GUID (or the GUID of a guided  *)
(* section), or the nth section of a type inside the file with a GUID.     *)
(***************************************************************************)
NoPath == <<-1>>

RECURSIVE node_at_path(_, _)
Has(n, i) == i + 1 \in DOMAIN n.kids
Exists(n, path) == \A j \in DOMAIN path : Has(node_at_path(n, SubSeq(path, 1, j - 1)), path[j])
node_at_path(n, path) == IF path = <<>> THEN n ELSE node_at_path(n.kids[Head(path) + 1], Tail(path))

CarriesGuid(n, g) == n.guid = g \/ (n.pd.k = "gs" /\ n.pd.alg = g)

RECURSIVE find_path_by_guid(_, _, _)
(* Mutant: the last of several nodes with the GUID. *)
find_path_by_guid_last(n, g, path) ==
    LET hits == SelectSeq([i \in DOMAIN n.kids |-> find_path_by_guid(n.kids[i], g, Append(path, i - 1))],
                          LAMBDA p : p # NoPath)
    IN IF hits # <<>> THEN hits[Len(hits)] ELSE IF CarriesGuid(n, g) THEN path ELSE NoPath
find_path_by_guid(n, g, path) ==
    IF CarriesGuid(n, g) THEN path
    ELSE LET hits == SelectSeq([i \in DOMAIN n.kids |-> find_path_by_guid(n.kids[i], g, Append(path, i - 1))],
                               LAMBDA p : p # NoPath)
         IN IF hits = <<>> THEN NoPath ELSE Head(hits)

(* Depth first through sections, into compressed and guided ones; count is *)
(* how many of the type were passed.  [path, count].                       *)
RECURSIVE find_guid_section_dfs(_, _, _, _, _, _)
find_guid_section_dfs(n, i, sub, wanted, count, path) ==
    IF i > Len(n.kids) THEN [path |-> NoPath, count |-> count]
    ELSE LET c == n.kids[i]
             here == c.type = "Section" /\ c.sub = sub
             next == count + One(here)
             inner == find_guid_section_dfs(c, 1, sub, wanted, next, Append(path, i - 1))
         IN IF here /\ wanted \in {-1, count} THEN [path |-> Append(path, i - 1), count |-> next]
            ELSE IF c.type = "Section" /\ is_compressed_or_guided(c)
                 THEN IF inner.path # NoPath THEN inner
                      ELSE find_guid_section_dfs(n, i + 1, sub, wanted, inner.count, path)
                 ELSE find_guid_section_dfs(n, i + 1, sub, wanted, next, path)

find_item_path(n, t) ==
    CASE t.k = "path" -> IF Exists(n, t.path) THEN t.path ELSE NoPath
      [] t.k = "guid" -> find_path_by_guid(n, t.guid, <<>>)
      [] t.k = "section" ->
            LET f == find_path_by_guid(n, t.guid, <<>>) IN
            IF f = NoPath THEN NoPath
            ELSE LET s == find_guid_section_dfs(node_at_path(n, f), 1, t.sub, t.index, 0, <<>>)
                 IN IF s.path = NoPath THEN NoPath ELSE f \o s.path

(* The nodes in the order a depth-first walk meets them, with their paths. *)
RECURSIVE list_recursive(_, _)
list_recursive(n, path) ==
    <<[path |-> path, node |-> n]>>
    \o FlattenSeq([i \in DOMAIN n.kids |-> list_recursive(n.kids[i], Append(path, i - 1))])
list_items(n) == list_recursive(n, <<>>)

(* find_item walks the tree on its own instead of using find_item_path.    *)
find_by_guid(n, g) ==
    LET hits == SelectSeq(list_items(n), LAMBDA e : CarriesGuid(e.node, g))
    IN IF hits = <<>> THEN NotParsed ELSE [ok |-> TRUE, node |-> Head(hits).node]
find_item(n, t) ==
    LET f == find_by_guid(n, t.guid)
        s == find_guid_section_dfs(f.node, 1, t.sub, t.index, 0, <<>>)
    IN CASE t.k = "guid" -> f
         [] t.k = "path" -> IF Exists(n, t.path) THEN [ok |-> TRUE, node |-> node_at_path(n, t.path)] ELSE NotParsed
         [] t.k = "section" -> IF f.ok /\ s.path # NoPath THEN [ok |-> TRUE, node |-> node_at_path(f.node, s.path)]
                               ELSE NotParsed

(* At most limit sections of a type, in listing order: the walk stops as   *)
(* soon as it has them (0 is no limit).                                    *)
RECURSIVE search_recursive(_, _, _, _, _)
search_recursive(n, path, sub, limit, out) ==
    IF Len(out) >= limit THEN out
    ELSE LET hit == IF n.type = "Section" /\ n.sub = sub THEN Append(out, path) ELSE out IN
         FoldLeft(LAMBDA acc, i : IF Len(acc) >= limit THEN acc
                                  ELSE search_recursive(n.kids[i], Append(path, i - 1), sub, limit, acc),
                  hit, [i \in 1..Len(n.kids) |-> i])
Unlimited == 1000
search(n, sub, limit) == search_recursive(n, <<>>, sub, IF limit = 0 THEN Unlimited ELSE limit, <<>>)

(* The name of a file: its UI or version section, looked for among its     *)
(* sections first and then inside the compressed and guided ones.          *)
RECURSIVE find_lifted_name(_, _)
IsName(c) == c.type = "Section" /\ c.sub \in {"ui", "version"}
MaxLift == 8
find_lifted_name(kids, depth) ==
    LET here == SelectSeq(kids, IsName)
        below == SelectSeq([i \in DOMAIN kids |->
                              IF kids[i].type = "Section" /\ is_compressed_or_guided(kids[i])
                              THEN find_lifted_name(kids[i].kids, depth + 1) ELSE <<>>],
                           LAMBDA nm : nm # <<>>)
    IN IF depth >= MaxLift THEN <<>>
       ELSE IF here # <<>> THEN Head(here).body
       ELSE IF below # <<>> THEN Head(below) ELSE <<>>
node_name(n) == CASE IsName(n) -> n.body
                  [] n.type = "File" -> find_lifted_name(n.kids, 0)
                  [] OTHER -> <<>>

(***************************************************************************)
(* Edits of the tree.                                                      *)
(***************************************************************************)
RECURSIVE WithNode(_, _, _)
WithNode(n, path, new) ==
    IF path = <<>> THEN new
    ELSE [n EXCEPT !.kids[Head(path) + 1] = WithNode(@, Tail(path), new)]

Marked(n) == [n EXCEPT !.act = IF @ = "NoAction" THEN "Rebuild" ELSE @]

(* Every node from the root to the path, as far as the path exists.        *)
RECURSIVE mark_rebuild_to_root_by_path(_, _)
mark_rebuild_to_root_by_path(n, path) ==
    IF path = <<>> \/ ~Has(n, Head(path)) THEN Marked(n)
    ELSE [Marked(n) EXCEPT !.kids[Head(path) + 1] = mark_rebuild_to_root_by_path(@, Tail(path))]

(* Regions are read-only, and nothing below a compressed section that the  *)
(* builder cannot write again may change; the last step of the path is     *)
(* exempt when the edit is beside the target and not in it.                *)
Barrier(n) == n.type = "Section" /\ (n.sub = "comp" \/ (n.sub = "guid" /\ ~(n.pd.k = "gs" /\ is_recompressable_lzma_guid(n.pd.alg))))

RECURSIVE ensure_mutable(_, _, _)
(* Mutant: compressed sections are not looked at. *)
ensure_mutable_regions(n, path, checked) ==
    IF path = <<>> \/ ~Has(n, Head(path)) THEN "ok"
    ELSE LET c == n.kids[Head(path) + 1] IN
         IF c.type = "Region" THEN "ImmutableRegion" ELSE ensure_mutable(c, Tail(path), checked - 1)
ensure_mutable(n, path, checked) ==
    IF path = <<>> \/ ~Has(n, Head(path)) THEN "ok"
    ELSE LET c == n.kids[Head(path) + 1] IN
         IF c.type = "Region" THEN "ImmutableRegion"
         ELSE IF checked > 0 /\ Barrier(c) THEN "MutationBehindCompression"
         ELSE ensure_mutable(c, Tail(path), checked - 1)

(* The polarity of the innermost volume on the path.                       *)
RECURSIVE enclosing_volume_empty_byte(_, _)
enclosing_volume_empty_byte(n, path) ==
    LET here == IF n.pd.k = "vol" THEN n.pd.pol ELSE -1 IN
    IF path = <<>> THEN here
    ELSE IF ~Has(n, Head(path)) THEN -1
    ELSE LET below == enclosing_volume_empty_byte(n.kids[Head(path) + 1], Tail(path))
         IN IF below # -1 THEN below ELSE here

parse_ffs_bytes(data) == parse_file(data, 0, 2)

NoTarget == "none"
Edited(op, t, tree) == /\ root' = tree
                    /\ edits' = edits + 1
                    /\ last' = [op |-> op, res |-> "ok", at |-> t]
                    /\ UNCHANGED disk
EditRefused(op, t, err) == /\ last' = [op |-> op, res |-> err, at |-> t]
                        /\ edits' = edits + 1
                        /\ UNCHANGED <<root, disk>>

(* A file inside a volume of erase polarity FF has its state bits inverted.*)
WithState(n, empty) == IF empty = 255 /\ n.hdr[1].state = "07" THEN [n EXCEPT !.hdr[1].state = "F8"] ELSE n

(* Mutant: Before and After are taken for each other. *)
InsertIndex_swapped(path, mode) == path[Len(path)] + One(mode = "Before")
(* Where among the siblings the new file goes (from 0).                    *)
InsertIndex(path, mode) == path[Len(path)] + One(mode = "After")

insert(t, data, mode) ==
    /\ edits < MaxEdits
    /\ LET f == parse_ffs_bytes(data)
           path == t.path
           parent == IF mode = "Into" THEN path ELSE Front(path)
           mutable == ensure_mutable(root, path, IF mode = "Into" THEN Len(path) ELSE Len(path) - 1)
           new == WithState(f.node, enclosing_volume_empty_byte(root, parent))
           at == InsertIndex(path, mode)
           sibs == node_at_path(root, parent).kids
           err == CASE ~f.ok -> "InvalidFfs"
                    [] t.k # "path" -> "NotFound"
                    [] mode # "Into" /\ path = <<>> -> "InvalidParent"
                    [] mutable # "ok" -> mutable
                    [] ~Exists(root, parent) -> "NotFound"
                    [] mode # "Into" /\ path[Len(path)] > Len(sibs) -> "InvalidParent"
                    \* Vec::insert past the end
                    [] mode # "Into" /\ at > Len(sibs) -> "panic"
                    [] OTHER -> "ok"
           put(n) == [n EXCEPT !.kids = IF mode = "Into" THEN Append(@, new) ELSE InsertAt(@, at + 1, new)]
       IN IF err # "ok" THEN EditRefused("insert", [path |-> path, mode |-> mode], err)
          ELSE Edited("insert", [path |-> path, mode |-> mode], mark_rebuild_to_root_by_path(WithNode(root, parent, put(node_at_path(root, parent))), path))

(* The common part of remove, replace and rebuild.                         *)
OnTarget(op, t, F(_)) ==
    /\ edits < MaxEdits
    /\ LET path == find_item_path(root, t)
           mutable == ensure_mutable(root, path, Len(path))
           n == node_at_path(root, path)
       IN IF path = NoPath THEN EditRefused(op, t, "NotFound")
          ELSE IF mutable # "ok" THEN EditRefused(op, t, mutable)
          ELSE IF ~F(n).ok THEN EditRefused(op, t, "InvalidFfs")
          ELSE Edited(op, t, mark_rebuild_to_root_by_path(WithNode(root, path, F(n).node), path))

Kept(n) == [ok |-> TRUE, node |-> n]
Removed(n) == Kept([n EXCEPT !.act = "Remove"])
remove(t) == OnTarget("remove", t, Removed)

Replaced(n, data, bodyOnly) ==
    IF bodyOnly THEN Kept([n EXCEPT !.kids = <<>>, !.body = data, !.act = "Replace"])
    ELSE LET f == parse_ffs_bytes(data) IN
         IF f.ok THEN Kept([f.node EXCEPT !.off = n.off, !.act = "Replace"]) ELSE NotParsed
replace(t, data, bodyOnly) == OnTarget("replace", t, LAMBDA n : Replaced(n, data, bodyOnly))

(* A node marked for removal stays so: then nothing is marked either.      *)
rebuild(t) ==
    LET path == find_item_path(root, t) IN
    IF path # NoPath /\ ensure_mutable(root, path, Len(path)) = "ok" /\ node_at_path(root, path).act = "Remove"
    THEN edits < MaxEdits /\ EditRefused("rebuild", t, "ok")
    ELSE OnTarget("rebuild", t, LAMBDA n : Kept([n EXCEPT !.act = "Rebuild"]))

(***************************************************************************)
(* flush_image without its interleavings (the module EngineServer has      *)
(* them): build, refuse a smaller or a poorer image, write, read again.    *)
(***************************************************************************)
(* Mutant: the files are not counted. *)
validate_flush_bytes_uncounted(tree, fresh) ==
    volume_count(fresh) > 0 \/ volume_count(tree) = 0
\* fresh is what parse_image reads of the bytes
validate_flush_bytes(tree, fresh) ==
    /\ count_files(fresh) >= count_live_files(tree)
    /\ volume_count(fresh) > 0 \/ volume_count(tree) = 0

FlushRefused(res) == last' = [op |-> "flush", res |-> res, at |-> NoTarget] /\ UNCHANGED <<disk, root>>

Flush ==
    /\ last.op \in {"insert", "remove", "replace", "rebuild"} /\ last.res = "ok"
    /\ edits' = edits
    /\ \E b \in {build_image(root)} :
          IF ~b.ok THEN FlushRefused(b.err)
          ELSE \E fresh \in {parse_image(b.out)} :
                 IF Len(b.out) >= Len(disk) /\ validate_flush_bytes(root, fresh)
                 THEN /\ disk' = b.out
                      /\ root' = fresh
                      /\ last' = [op |-> "flush", res |-> "ok", at |-> NoTarget]
                 ELSE FlushRefused("poorer")

Init == /\ disk \in Images
        /\ root = parse_image(disk)
        /\ edits = 0
        /\ last = [op |-> "open", res |-> "ok", at |-> NoTarget]

Next == \/ \E t \in Targets, d \in Payloads : \E mode \in {"Into", "Before", "After"} : insert(t, d, mode)
        \/ \E t \in Targets : remove(t)
        \/ \E t \in Targets, d \in Payloads, b \in BOOLEAN : replace(t, d, b)
        \/ \E t \in Targets : rebuild(t)
        \/ Flush

Spec == Init /\ [][Next]_vars

(***************************************************************************)
(* What a client sees of a tree: the live volumes, files and sections, by  *)
(* GUID and type, down to the data of the innermost; sizes, checksums,     *)
(* offsets and padding left out.  A node without children is read the way  *)
(* the parser would read its body.                                         *)
(***************************************************************************)
Live(kids) == SelectSeq(kids, LAMBDA k : k.act # "Remove")
Visible(kids) == SelectSeq(Live(kids), LAMBDA k : k.type \in {"Volume", "File", "Section"})
KidsOf(n) == IF n.kids # <<>> THEN n.kids
             ELSE CASE n.type = "File" -> parse_sections(n.body, 0)
                    [] n.type = "Section" -> SectionKids(n.hdr, n.body)
                    [] n.type = "Volume" -> parse_volume_files(n.body, 0, 0, n.pd.pol, n.pd.rev)
                    [] OTHER -> <<>>
RECURSIVE Content(_)
Content(n) == LET kids == Visible(KidsOf(n)) IN
              [what |-> <<n.type, n.sub, n.guid>>,
               data |-> IF kids # <<>> \/ n.type \in {"Volume", "Image"} THEN <<>>
                        ELSE (IF n.kids = <<>> THEN n.body ELSE <<>>) \o n.tail,
               kids |-> [i \in DOMAIN kids |-> Content(kids[i])]]
NodesOf(n) == {e.node : e \in Range(list_items(n))}
RECURSIVE LiveNodes(_)
LiveNodes(n) == IF n.act = "Remove" THEN {}
                ELSE {n} \cup UNION {LiveNodes(n.kids[i]) : i \in DOMAIN n.kids}

AcceptedFlush == last'.op = "flush" /\ last'.res = "ok" /\ last.op # "flush"
\* a marked volume with data and no files (its body was replaced, or did not parse): the builder
\* writes the files, of which there are none, and erases the rest
Erased(n, from) == \A i \in from..Len(n.body) : n.body[i] = Fill(n.pd.pol)
VolumeWithoutFiles == \E n \in LiveNodes(root) : /\ n.type = "Volume" /\ n.act # "NoAction"
                                                 /\ n.kids = <<>> /\ ~Erased(n, 1)
\* a section or a file that outgrew the size field of its small header (all ones is no size of one)
Overgrown == \E n \in LiveNodes(root) : /\ n.type \in {"File", "Section"} /\ n.act # "NoAction" /\ Len(n.hdr) = 1
                                        /\ build_node(n).ok /\ Len(build_node(n).out) >= AllOnes

(* The tree is a tree of parsed nodes whose marks reach the root: every    *)
(* ancestor of a marked node is marked.                                    *)
TypeOK == /\ edits \in 0..MaxEdits
          /\ root.type = "Image"
          /\ \A n \in NodesOf(root) : n.act \in {"NoAction", "Rebuild", "Replace", "Remove"}
          /\ \A n \in NodesOf(root) : subtree_dirty(n) => n.act # "NoAction"

(* What flush_image accepts (build, size and count checks) reads back as   *)
(* the tree the edits made: same live volumes, files and sections with the *)
(* same data, whatever alignment, sizes, tails and recompression did; save *)
(* for the two named cases the builder gets wrong.                         *)
FlushWritesTree ==
    [][AcceptedFlush /\ ~VolumeWithoutFiles /\ ~Overgrown => Content(root') = Content(root)]_vars

(* A file no edit reached is written byte for byte: after an accepted      *)
(* flush it is in the image with its header, body and tail.                *)
UntouchedFilesKeepBytes ==
    AcceptedFlush /\ ~Overgrown =>
     \A n \in LiveNodes(root) :
         n.type = "File" /\ n.act = "NoAction" =>
             \E m \in NodesOf(root') : m.type = "File" /\ Verbatim(m) = Verbatim(n)

(* The header checksum of every file of the stored image covers the size   *)
(* its header states, and the data checksum of a file that has one covers  *)
(* its body (set_ffs_size before recompute_ffs_checksums).                 *)
ChecksumsHold ==
    \A n \in NodesOf(parse_image(disk)) :
        n.type = "File" => /\ n.hdr[1].hsum = StatedSize(n.hdr)
                           /\ n.hdr[1].attr = "checksum" /\ n.hdr[1].dsum # <<>> => n.hdr[1].dsum = n.body

(* An edit below a compressed section the builder cannot write again is    *)
(* refused, so a flush never stops at one; only inserting directly after   *)
(* such a section marks it.                                                *)
BarriersStayClean ==
    \A e \in Range(list_items(root)) :
        Barrier(e.node) => \A i \in DOMAIN e.node.kids : ~subtree_dirty(e.node.kids[i])

(* Read-only flash regions keep their bytes in every stored image.         *)
RegionsKeepBytes ==
    \A i \in DOMAIN root.kids :
     root.kids[i].type = "Region" =>
         \E m \in NodesOf(root') : /\ m.type = "Region" /\ m.body = root.kids[i].body
                                   /\ m.off = root.kids[i].off

(* Marking every file and section of a freshly read image for rebuild and  *)
(* building it gives the same bytes: parser and builder agree on every     *)
(* alignment, size, tail and stream.  Only for a tree that covers its      *)
(* bytes (Complete): data the parser skipped is not in the tree.           *)
RECURSIVE MarkAll(_)
MarkAll(n) == IF Barrier(n) \/ (n.sub = "guid" /\ n.kids = <<>>) THEN n
              ELSE [Marked(n) EXCEPT !.kids = [i \in DOMAIN @ |-> MarkAll(@[i])]]
RECURSIVE Complete(_)
EndOf(kids, a) == FoldLeft(LAMBDA at, k : align_up(at, a) + NodeLen(k), 0, kids)
Complete(n) ==
    /\ \A i \in DOMAIN n.kids : Complete(n.kids[i])
    /\ n.type = "Volume" => Erased(n, EndOf(n.kids, FFS_ALIGN) + 1)
    /\ n.type = "File" /\ n.kids # <<>> => EndOf(n.kids, SECTION_ALIGN) = Len(n.body)
NoSums(buf) == [i \in DOMAIN buf |-> IF buf[i].k = "ffs" THEN [buf[i] EXCEPT !.dsum = <<>>] ELSE buf[i]]
RebuildIsIdentity ==
    root = parse_image(disk) /\ Complete(root) =>
        \E b \in {build_image(MarkAll(root))} : b.ok /\ NoSums(b.out) = NoSums(disk)

(* The marks of the edits reach the root, so that a build visits every     *)
(* edit, and no edit is below a section that cannot be written again.      *)
MarksReachRoot == TypeOK /\ BarriersStayClean

(* What is stored is an image the firmware takes and the parser and the    *)
(* builder agree on.                                                       *)
StoredIsSound == ChecksumsHold /\ RebuildIsIdentity

(* No flush changes a byte of what no edit reached: files without a mark,  *)
(* flash regions.                                                          *)
UneditedKeepsBytes == [][UntouchedFilesKeepBytes /\ RegionsKeepBytes]_vars

(* Resolving a target to a path and resolving it to a node are two walks:  *)
(* they agree on every target; a limited search is the beginning of the    *)
(* unlimited one; a file is named by a section inside it.                  *)
TargetsAgree ==
    /\ \A t \in Targets :
          LET p == find_item_path(root, t)
              f == find_item(root, t)
          IN (p # NoPath) = f.ok /\ (f.ok => node_at_path(root, p) = f.node)
    /\ \A sub \in {"pe", "ui"}, k \in 1..2 :
          IsPrefix(search(root, sub, k), search(root, sub, 0)) /\ Len(search(root, sub, k)) <= k
    /\ \A n \in NodesOf(root) :
          n.type = "File" =>
              node_name(n) \in {<<>>} \cup {m.body : m \in {x \in NodesOf(n) : IsName(x)}}

(* An insertion lands where it was asked for: the new file is the last     *)
(* child, or directly before or after the target, and the other children   *)
(* are the ones there were, in their order.  Inserting beside a node that  *)
(* exists never panics; the index check admits one index too many, and     *)
(* inserting after it does (Vec::insert).                                  *)
Seen(kids) == [i \in DOMAIN kids |-> Content(kids[i])]
InsertLands ==
    [][last'.op = "insert" /\ last' # last =>
        LET at == last'.at
            parent == IF at.mode = "Into" THEN at.path ELSE Front(at.path)
            old == node_at_path(root, parent).kids
            new == node_at_path(root', parent).kids
            i == CASE at.mode = "Into" -> Len(new)
                   [] at.mode = "Before" -> at.path[Len(at.path)] + 1
                   [] at.mode = "After" -> at.path[Len(at.path)] + 2
        IN /\ last'.res = "ok" => new[i].type = "File" /\ Seen(RemoveAt(new, i)) = Seen(old)
           /\ last'.res = "panic" => ~Exists(root, at.path)]_vars

(* Files of the stored image that the parser did not take into the tree    *)
(* (it stops at the first header it cannot read) outlive every flush the   *)
(* checks against data loss let through.                                   *)
SkippedFilesKept ==
    [][AcceptedFlush =>
        \A i \in DOMAIN disk :
            disk[i].k = "ffs" /\ (\A n \in NodesOf(parse_image(disk)) : n.hdr = <<>> \/ n.hdr[1] # disk[i])
                => disk[i] \in Range(disk')]_vars
=============================================================================
