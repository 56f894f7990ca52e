----------------------------- MODULE MCFfsEdit -----------------------------
(***************************************************************************)
(* Small firmware images and edits for TLC.                                *)
(***************************************************************************)
EXTENDS HiiLocate

Section(sub, body) == LET s == SectionHeader(sub, 1 + Len(body)) \o body
                      IN pad_to(s, align_up(Len(s), SECTION_ALIGN), 0)
File(guid, attr, body) == FfsHeader(guid, 1 + Len(body), attr) \o body
Volume(pol, rev, files, free) ==
    LET body == FoldLeft(LAMBDA b, f : pad_to(b, align_up(Len(b), FFS_ALIGN), pol) \o f, <<>>, files)
        full == pad_to(body, align_up(Len(body), FFS_ALIGN) + free, pol)
    IN FvHeader(4 + Len(full), pol, rev) \o full

Pe(x) == Section("pe", <<Raw(x), Raw(x)>>)
Ui == SectionHeader("ui", 2) \o <<Raw("u")>>
Guided(alg, payload) == Section("guid", Prefix(alg) \o Stream(guided_algorithm(alg), payload) \o Fills(0, 2))

\* plain files, a raw one, free space; padding in front and behind
Plain == Fills(255, 8) \o Volume(255, 2, <<File("A", "checksum", Pe("a") \o Ui), File("B", "none", <<Raw("b")>>)>>, 8)
         \o <<Raw("x")>> 
\* a revision 1 volume, whose files have tails
Tailed == Volume(0, 1, <<FfsHeader("A", 6, "none") \o Pe("a") \o <<Raw("t")>>, FfsHeader("B", 3, "none") \o <<Raw("b"), Raw("t")>>>>, 4)
\* an LZMA section with a nested volume, and a section that cannot be written again
Nested == Volume(255, 2, <<File("A", "none", Guided("lzma", Pe("a") \o Section("fv", Volume(255, 2, <<File("C", "none", Pe("c"))>>, 8)))),
                           File("B", "none", Section("comp", Prefix("tiano") \o Stream("tiano", Pe("b"))) \o Ui)>>, 8)
\* large headers: a file with one section behind an extended header, a file in front of it that has a small one
BigSection(sub, body) == Extended(SectionHeader(sub, 0), 2 + Len(body)) \o body
BigFile(guid, attr, body) ==
    [Extended(FfsHeader(guid, 0, attr), 2 + Len(body)) EXCEPT ![1].hsum = 2 + Len(body)] \o body
Large == Volume(255, 2, <<File("A", "none", Pe("a")), BigFile("B", "checksum", BigSection("pe", [i \in 1..18 |-> Raw("b")])
                          \o BigSection("guid", Prefix("lzma") \o Stream("lzma", Pe("c"))))>>, 32)
\* a flash descriptor, an ME region with a partition, an IE region that reaches into the BIOS region,
\* a gap, a BIOS region with two volumes
Regions == <<[k |-> "descriptor", regions |-> <<[kind |-> "Bios", off |-> 8, size |-> 40], [kind |-> "Me", off |-> 2, size |-> 3],
                                               [kind |-> "Ie", off |-> 5, size |-> 5], [kind |-> "Gbe", off |-> 48, size |-> 2]>>], Raw("d"),
             [k |-> "fpt", parts |-> <<[off |-> 1, size |-> 5]>>], Raw("m"), Raw("m")>> \o Fills(255, 3)
           \o Volume(255, 2, <<File("A", "none", Pe("a"))>>, 4)
           \o Volume(255, 2, <<File("B", "none", Pe("b"))>>, 4) \o Fills(255, 8) \o <<Raw("g"), Raw("g")>>

\* data between two files of a volume that is no file header
Gapped == Volume(255, 2, <<File("A", "none", Pe("a")), <<Raw("j")>>, File("B", "none", Pe("b"))>>, 4)

\* what the HII operations look for: packages of strings, the $SPF data, names
Strings(len, ids, t) == <<[k |-> "str", len |-> len, strs |-> [i \in ids |-> t]], Raw("s")>>
Resource(whole, ids, t) ==
    <<[k |-> "rsrc", blobs |-> <<[whole |-> whole, pkgs |-> <<Package("forms", 2, <<>>), Package("strings", 3, [i \in ids |-> t])>>]>>], Raw("r"), Raw("r")>>
List(end) == <<[k |-> "list"], [k |-> "pkg", kind |-> "strings", len |-> 2, strs |-> [i \in {4} |-> "list"]], Raw("s"), end>>
EndPackage == [k |-> "pkg", kind |-> "end", len |-> 1, strs |-> <<>>]
Spf == <<Raw("v"), [k |-> "spf"]>> \o [i \in 1..8 |-> Raw("v")]
Name(x) == SectionHeader("ui", 2) \o <<Raw(x)>>
\* bare sections: a package that overstates its length, one that does not, another file's longer one,
\* a file that is named by nothing but its length
Setup == Volume(255, 2, <<File("A", "none", Section("raw", Strings(3, {1, 2}, "cut")) \o Section("raw", Strings(2, {1, 3}, "own"))),
                          File("D", "none", Section("raw", Spf) \o Name("setupdata")),
                          File("S", "none", [i \in 1..7 |-> Raw("q")]),
                          File("T", "none", Pe("t") \o Name("AMITSE"))>>, 8)
\* wrapped: strings in the resources of PEs, one behind a wrapper that cannot be written again, a package
\* list, $SPF in a section that is not opened and behind one that is
Wrapped == Volume(255, 2, <<File("A", "none", Guided("tiano", Section("pe", Resource(TRUE, {1}, "hidden"))) \o Section("freeform", List(EndPackage))),
                            File("S", "none", Guided("lzma", Section("pe", Resource(FALSE, {2}, "bad")) \o Section("pe", Resource(TRUE, {1, 2}, "open")))
                                              \o Section("guid", Prefix("crc") \o Spf)),
                            File("T", "none", Guided("lzma", Section("raw", Spf) \o Name("AMITSESetupData"))
                                              \o Section("comp", Prefix("tiano") \o Stream("tiano", Pe("b"))) \o Pe("t") \o Name("AMITSE"))>>, 8)

\* no volume at all
Blank == Fills(255, 4)

MCImages == {Blank, Plain, Large, Tailed, Nested, Regions, Setup, Wrapped}
HiiImages == {Setup, Wrapped}
GappedOnly == {Gapped}
MCPayloads == {[File("N", "none", Pe("n")) EXCEPT ![1].state = "07"], <<Raw("y")>>, Fills(0, 1) \o [i \in 1..20 |-> Raw("z")]}
Path(p) == [k |-> "path", path |-> p, guid |-> NoGuid, sub |-> "none", index |-> -1]
ByGuid(g) == [k |-> "guid", path |-> <<>>, guid |-> g, sub |-> "none", index |-> -1]
BySection(g, s, i) == [k |-> "section", path |-> <<>>, guid |-> g, sub |-> s, index |-> i]
MCTargets == {Path(<<0>>), Path(<<1>>), Path(<<0, 0>>), Path(<<1, 0>>), Path(<<1, 1>>), Path(<<0, 2>>), Path(<<0, 0, 0>>),
              Path(<<0, 0, 0, 1, 0, 0>>), Path(<<0, 1, 0>>), Path(<<0, 1, 0, 0>>), ByGuid("A"), ByGuid("C"), ByGuid("N"), ByGuid("lzma"), BySection("A", "pe", 0),
              BySection("B", "pe", -1), BySection("A", "ui", 1)}
=============================================================================
