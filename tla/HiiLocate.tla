----------------------------- MODULE HiiLocate -----------------------------
(***************************************************************************)
(* Where in the tree the HII operations of crates/uefi-engine (src/hii)    *)
(* read and write: the string package and the PE resource of a file, the   *)
(* setup data and the AMITSE module, the pool that names what a file does  *)
(* not name itself.  Several walks, written one by one, each with its own  *)
(* idea of what may be written and where it descends.                      *)
(*                                                                         *)
(* Content of a section is a first cell: a string package ("str": the      *)
(* length it declares, its strings by id), a package list ("list": the     *)
(* packages follow it), the resources of a PE ("rsrc": for each HII entry  *)
(* whether its list parses, and the packages), the signature $SPF ("spf"). *)
(* What the packages hold inside is in the modules StringPack, PeResource. *)
(***************************************************************************)
EXTENDS FfsEdit

CONSTANT AMI_RECORD_SIZE    \* in cells

ASSUME RecordAssumption == AMI_RECORD_SIZE \in Nat \ {0}

AnyGuid == "any"             \* no GUID was given
AMITSE_GUID == "T"
SPF_HEADER == 10             \* 20 bytes
SPF_WINDOW == 32             \* 0x40 bytes

IsSection(n, sub) == n.type = "Section" /\ n.sub = sub
Leaf(n) == n.type = "Section" /\ n.kids = <<>>
Begins(body, k) == body # <<>> /\ body[1].k = k
Longer(a, b) == IF b > a THEN b ELSE a

(***************************************************************************)
(* The packages of a section.                                              *)
(***************************************************************************)
Package(kind, len, strs) == [kind |-> kind, len |-> len, strs |-> strs]
declared_len_sane(body) == body # <<>> /\ body[1].len <= Len(body)
is_string_package(body) == Begins(body, "str")

(* A list whose length is not in its header: the packages have to end with *)
(* the buffer, an END package only as the last.                            *)
RECURSIVE ExactFrom(_, _, _)
ExactFrom(body, pos, out) ==
    IF pos = Len(body) THEN out
    ELSE LET h == body[pos + 1] IN
         IF h.k # "pkg" THEN <<>>
         ELSE IF h.kind = "end" THEN IF pos + 1 = Len(body) THEN out ELSE <<>>
         ELSE IF h.len < 1 \/ pos + h.len > Len(body) THEN <<>>
         ELSE ExactFrom(body, pos + h.len, Append(out, Package(h.kind, h.len, h.strs)))
parse_package_list_exact(body) == IF Begins(body, "list") THEN ExactFrom(body, 1, <<>>) ELSE <<>>

StringsAmong(pkgs) == SelectSeq(pkgs, LAMBDA p : p.kind = "strings")
(* Of the HII entries of a PE, those whose list parses.                    *)
hii_resource_blobs(body) == IF Begins(body, "rsrc") THEN SelectSeq(body[1].blobs, LAMBDA b : b.whole) ELSE <<>>
resource_string_packages(body) ==
    FlattenSeq([i \in DOMAIN hii_resource_blobs(body) |-> StringsAmong(hii_resource_blobs(body)[i].pkgs)])
(* The first entry alone decides where strings can be added.               *)
pe_resource_has_string_package(body) ==
    /\ Begins(body, "rsrc") /\ body[1].blobs # <<>>
    /\ body[1].blobs[1].whole /\ StringsAmong(body[1].blobs[1].pkgs) # <<>>

(***************************************************************************)
(* Walks that look for a section to write in.  A section behind a wrapper  *)
(* the builder cannot write again is passed over, and remembered.          *)
(***************************************************************************)
is_non_recompressable_wrapper(n) ==
    /\ n.type = "Section" /\ is_compressed_or_guided(n)
    /\ ~(n.pd.k = "gs" /\ is_recompressable_lzma_guid(n.pd.alg))

container_start(body) == {i \in DOMAIN body : body[i].k = "spf"}
is_pfs_payload(n) == /\ Leaf(n) /\ Len(n.body) >= SPF_HEADER
                     /\ container_start(n.body) \cap 1..SPF_WINDOW # {}
is_pe32_payload(n) == Leaf(n) /\ n.sub = "pe"

(* What a walk looks for; owner is the GUID of the file it is in.          *)
Wanted(what, owner, n) ==
    CASE what.k = "pfs" -> is_pfs_payload(n)
      [] what.k = "pe" -> is_pe32_payload(n)
      [] what.k = "resource" -> /\ is_pe32_payload(n) /\ what.guid \in {AnyGuid, owner}
                                /\ pe_resource_has_string_package(n.body)
      [] what.k = "strings" -> /\ Leaf(n) /\ is_string_package(n.body) /\ declared_len_sane(n.body)
                               /\ what.guid \in {AnyGuid, owner}
ChildOwner(c, owner) == IF c.type = "File" THEN c.guid ELSE owner

RECURSIVE walk_for(_, _, _, _, _, _)
walk_for(n, i, what, owner, behind, path) ==
    IF i > Len(n.kids) THEN [path |-> NoPath, blocked |-> FALSE]
    ELSE LET c == n.kids[i]
             rest == walk_for(n, i + 1, what, owner, behind, path)
             inner == walk_for(c, 1, what, ChildOwner(c, owner),
                               behind \/ (what.k # "strings" /\ is_non_recompressable_wrapper(c)), Append(path, i - 1))
         IN IF Wanted(what, owner, c)
            THEN IF behind THEN [rest EXCEPT !.blocked = TRUE] ELSE [path |-> Append(path, i - 1), blocked |-> FALSE]
            ELSE IF inner.path # NoPath THEN inner
            ELSE [rest EXCEPT !.blocked = @ \/ inner.blocked]

Found(w, none) == IF w.path # NoPath THEN [ok |-> TRUE, path |-> w.path, err |-> "none"]
                  ELSE [ok |-> FALSE, path |-> NoPath, err |-> IF w.blocked THEN "MutationBehindCompression" ELSE none]
find_payload_path(file, k) == Found(walk_for(file, 1, [k |-> k], NoGuid, FALSE, <<>>), "AmiFilesNotFound")
pe_resource_channel_path(n, guid) ==
    Found(walk_for(n, 1, [k |-> "resource", guid |-> guid], NoGuid, FALSE, <<>>), "StringPackageNotFound")
string_package_section_path(n, guid) == walk_for(n, 1, [k |-> "strings", guid |-> guid], NoGuid, FALSE, <<>>).path

(***************************************************************************)
(* The setup data and the AMITSE module: a file of a volume of the root,   *)
(* by GUID, else by name, else by a body of whole records.                 *)
(***************************************************************************)
ui_name_matches(body, hint) ==
    Begins(body, "raw") /\ body[1].v \in {hint} \cup (IF hint = "setupdata" THEN {"AMITSESetupData"} ELSE {})
has_name_section(n, hint) == \E i \in DOMAIN n.kids : n.kids[i].sub = "ui" /\ ui_name_matches(n.kids[i].body, hint)
has_question_id_markers(body) == Len(body) >= AMI_RECORD_SIZE /\ Len(body) % AMI_RECORD_SIZE = 0
RECURSIVE subtree_has_ui_name(_, _)
subtree_has_ui_name(n, hint) == \/ IsSection(n, "ui") /\ ui_name_matches(n.body, hint)
                                \/ \E i \in DOMAIN n.kids : subtree_has_ui_name(n.kids[i], hint)

ModulesOf(n) == FlattenSeq([v \in DOMAIN n.kids |-> [f \in DOMAIN n.kids[v].kids |-> <<v - 1, f - 1>>]])
find_ami_module(n, guid, hint) ==
    LET Such(P(_)) == SelectSeq(ModulesOf(n), LAMBDA p : P(node_at_path(n, p)))
        all == Such(LAMBDA f : guid # AnyGuid /\ f.guid = guid)
               \o Such(LAMBDA f : has_name_section(f, hint))
               \o Such(LAMBDA f : has_question_id_markers(f.body))
    IN IF all = <<>> THEN NoPath ELSE Head(all)

Below(p, f) == [f EXCEPT !.path = IF f.ok THEN p \o @ ELSE @]
NotThere == [ok |-> FALSE, path |-> NoPath, err |-> "AmiFilesNotFound"]
pfs_payload_path(n, guid) ==
    LET m == find_ami_module(n, guid, "setupdata") IN
    IF m = NoPath THEN NotThere ELSE Below(m, find_payload_path(node_at_path(n, m), "pfs"))

resolve_ami_payloads(n, sdGuid, amGuid) ==
    LET s == find_ami_module(n, sdGuid, "setupdata")
        a == find_ami_module(n, amGuid, "AMITSE")
        sd == pfs_payload_path(n, sdGuid)
        am == Below(a, find_payload_path(node_at_path(n, a), "pe"))
    IN IF s = NoPath \/ a = NoPath THEN [sd |-> NotThere, am |-> NotThere]
       ELSE IF ~sd.ok THEN [sd |-> sd, am |-> NotThere]
       ELSE [sd |-> sd, am |-> am]

(* Without a GUID: the first file with the name anywhere inside it, and no *)
(* other if there is one; else the first file with a payload.              *)
discover_pfs_payload_path(n) ==
    LET named == SelectSeq(ModulesOf(n), LAMBDA p : subtree_has_ui_name(node_at_path(n, p), "setupdata"))
        In(p) == Below(p, find_payload_path(node_at_path(n, p), "pfs"))
        held == SelectSeq(ModulesOf(n), LAMBDA p : In(p).ok)
        hidden == \E p \in Range(ModulesOf(n)) : In(p).err = "MutationBehindCompression"
    IN IF named # <<>> THEN In(Head(named))
       ELSE IF held # <<>> THEN In(Head(held))
       ELSE [NotThere EXCEPT !.err = IF hidden THEN "MutationBehindCompression" ELSE @]

(* The TSE report and its edit look for a file by its GUID only, and do    *)
(* not ask whether what they find can be written.                          *)
FirstListed(n, P(_)) == LET hits == SelectSeq(list_items(n), LAMBDA e : P(e.node))
                        IN IF hits = <<>> THEN NoPath ELSE Head(hits).path
amitse_file(n) == FirstListed(n, LAMBDA f : f.type = "File" /\ f.guid = AMITSE_GUID)
pe32_rel(file) == FirstListed(file, is_pe32_payload)
walk_spf(file) == FirstListed(file, LAMBDA s : Leaf(s) /\ container_start(s.body) # {})

(***************************************************************************)
(* Strings: every package of the image with the file it is in, the texts   *)
(* of one file, and the texts of the file with the longest package, which  *)
(* stand in for those a file does not have.                                *)
(***************************************************************************)
RECURSIVE walk_string_packages(_, _)
walk_string_packages(n, owner) ==
    LET Of(channel, strs) == [owner |-> owner, channel |-> channel, strs |-> strs]
        bare == IF n.type = "Section" /\ is_string_package(n.body) /\ declared_len_sane(n.body)
                THEN <<Of("bare", n.body[1].strs)>> ELSE <<>>
        res == IF IsSection(n, "pe") THEN resource_string_packages(n.body) ELSE <<>>
    IN bare \o [i \in DOMAIN res |-> Of("res", res[i].strs)]
       \o FlattenSeq([i \in DOMAIN n.kids |-> walk_string_packages(n.kids[i], ChildOwner(n.kids[i], owner))])
collect_strings(n) == walk_string_packages(n, NoGuid)

(* The string packages a section of a file brings to its texts.            *)
TextPackages(c) ==
    CASE c.sub = "raw" -> IF is_string_package(c.body) /\ declared_len_sane(c.body)
                          THEN <<Package("strings", c.body[1].len, c.body[1].strs)>> ELSE <<>>
      [] c.sub = "pe" -> resource_string_packages(c.body)
      [] c.sub = "freeform" -> StringsAmong(parse_package_list_exact(c.body))
      [] OTHER -> <<>>
RECURSIVE collect_string_sections(_), max_string_pkg_len(_)
collect_string_sections(n) ==
    FlattenSeq([i \in DOMAIN n.kids |->
        LET c == n.kids[i] IN
        IF c.type # "Section" THEN <<>>
        ELSE TextPackages(c) \o (IF is_compressed_or_guided(c) THEN collect_string_sections(c) ELSE <<>>)])
(* A text once found is not replaced.                                      *)
prompt_texts_own(file) == FoldLeft(LAMBDA t, p : t @@ p.strs, <<>>, collect_string_sections(file))

LongestIn(c) == IF c.sub = "raw" /\ Len(c.body) <= 1 THEN 0
                ELSE FoldLeft(LAMBDA m, p : Longer(m, p.len), 0, TextPackages(c))
max_string_pkg_len(n) ==
    FoldLeft(LAMBDA m, c : IF c.type # "Section" THEN m
                           ELSE Longer(Longer(m, LongestIn(c)), IF is_compressed_or_guided(c) THEN max_string_pkg_len(c) ELSE 0),
             0, n.kids)
find_largest_pool_file(n) ==
    FoldLeft(LAMBDA best, e : LET len == IF e.node.type = "File" THEN max_string_pkg_len(e.node) ELSE 0
                              IN IF len > best.len THEN [len |-> len, path |-> e.path] ELSE best,
             [len |-> 0, path |-> NoPath], list_items(n))
image_string_fallback(n) ==
    LET best == find_largest_pool_file(n) IN
    IF best.path = NoPath THEN <<>> ELSE prompt_texts_own(node_at_path(n, best.path))

(***************************************************************************)
(* What the walks promise, stated over the listing of the tree.            *)
(***************************************************************************)
Above(n, p) == {node_at_path(n, SubSeq(p, 1, j)) : j \in 0..(Len(p) - 1)}
OwnerAt(n, p) == LET js == {j \in 1..(Len(p) - 1) : node_at_path(n, SubSeq(p, 1, j)).type = "File"}
                 IN IF js = {} THEN NoGuid ELSE node_at_path(n, SubSeq(p, 1, CHOOSE j \in js : \A k \in js : k <= j)).guid
Guids == {AnyGuid, "S"}
Sought == {[k |-> "pfs"], [k |-> "pe"]} \cup {[k |-> "resource", guid |-> g] : g \in Guids}

(* A walk for a section to write in finds the first one listed that no     *)
(* wrapper hides, and reports a hidden one only if there is no other       *)
(* (walk_for_payload, walk_for_pe_resource_channel).                       *)
FirstNotHidden ==
    \A what \in Sought :
        LET hits == SelectSeq(list_items(root), LAMBDA e : Wanted(what, OwnerAt(root, e.path), e.node))
            free == SelectSeq(hits, LAMBDA e : \A n \in Above(root, e.path) : ~Barrier(n))
            w == walk_for(root, 1, what, NoGuid, FALSE, <<>>)
        IN IF free # <<>> THEN w.path = Head(free).path
           ELSE w.path = NoPath /\ w.blocked = (hits # <<>>)

(* What a writer is given can be written: the edit of its path is one that *)
(* ops.rs would let through.  A payload may itself be a guided section the *)
(* parser does not open; the walks do not exclude that, and the flush then *)
(* refuses.                                                                *)
WritersMayWrite ==
    LET given == {discover_pfs_payload_path(root)} \cup {pe_resource_channel_path(root, g) : g \in Guids}
                 \cup UNION {{r.sd, r.am} : r \in {resolve_ami_payloads(root, g, h) : g \in Guids, h \in Guids}}
    IN \A f \in given : f.ok => ensure_mutable(root, f.path, Len(f.path) - One(Barrier(node_at_path(root, f.path)))) = "ok"

(* add_setup_formset checks for the AMI modules, adds strings, and resolves *)
(* the modules again to patch them: what it checked is what it patches, in *)
(* the bare channel and in the resource of a PE.                           *)
CheckedIsPatched ==
    \A g \in Guids, h \in Guids :
        LET before == resolve_ami_payloads(root, g, h)
            Grown(p) == WithNode(root, p, [node_at_path(root, p) EXCEPT !.body = @ \o <<Raw("new"), Raw("new")>>])
            bare == string_package_section_path(root, h)
            res == pe_resource_channel_path(root, h)
        IN before.am.ok => /\ Len(bare) = 3 => resolve_ami_payloads(Grown(bare), g, h) = before
                           /\ res.ok => resolve_ami_payloads(Grown(res.path), g, h) = before

(* The pool has the longest package of the image, wherever it is wrapped,  *)
(* and names every id of it; what it shows is what the listing shows of    *)
(* that file, a package list section excepted, which the listing leaves    *)
(* out (walk_string_packages has no case for it).                          *)
PoolIsLongest ==
    LET best == find_largest_pool_file(root)
        pool == image_string_fallback(root)
        sections == {e \in Range(list_items(root)) : e.node.type = "Section" /\ e.path # <<>>}
        \* a section directly in a volume's file, or in one that wraps it
        texts == {e \in sections : OwnerAt(root, e.path) # NoGuid}
    IN /\ \A e \in texts : LongestIn(e.node) <= best.len
       /\ best.path # NoPath =>
            LET file == node_at_path(root, best.path)
                pkgs == Range(collect_string_sections(file))
                listed == {<<s.owner, id, s.strs[id]>> : <<s, id>> \in
                             UNION {{s} \X DOMAIN s.strs : s \in Range(collect_strings(root))}}
            IN /\ \E p \in pkgs : p.len = best.len /\ DOMAIN p.strs \subseteq DOMAIN pool
               /\ (\A e \in sections : e.node.sub # "freeform") =>
                     \A id \in DOMAIN pool : <<file.guid, id, pool[id]>> \in listed

(* The PE the TSE operations read and clear entries in is the one a client *)
(* names as the first PE section of that file, and the $SPF they report is *)
(* there whenever the setup data can be patched in that file.  Sections of *)
(* a volume nested in the file are theirs too, and not the client's.       *)
TseAgrees ==
    LET f == amitse_file(root)
        file == node_at_path(root, f)
        named == find_item_path(root, [k |-> "section", guid |-> AMITSE_GUID, sub |-> "pe", index |-> -1])
    IN f # NoPath /\ (\A n \in NodesOf(file) : n.sub # "fv") =>
         /\ named = IF pe32_rel(file) = NoPath THEN NoPath ELSE f \o pe32_rel(file)
         /\ find_payload_path(file, "pfs").ok => walk_spf(file) # NoPath

LocatorsSound == TseAgrees /\ FirstNotHidden /\ WritersMayWrite /\ CheckedIsPatched /\ PoolIsLongest

(* Resolving a target to a path and resolving it to a node agree, and so   *)
(* do the walks of the HII operations and the listing of the tree (checked *)
(* where the tree may have changed: a refused step leaves it alone).       *)
LookupsAgree == TargetsAgree /\ (last.res = "ok" => LocatorsSound)
=============================================================================
