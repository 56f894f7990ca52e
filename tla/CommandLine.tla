----------------------------- MODULE CommandLine -----------------------------
(* The command line of the terminal client: the line editor (line.rs), the  *)
(* completion menu (MenuState, complete), the history and its file          *)
(* (history.rs) and the keys that drive them (cmd_key). A line is a         *)
(* sequence of characters; a word has no blank in it, but what is offered   *)
(* need not be a word: file and variable names may have blanks in them.     *)
EXTENDS Integers, Sequences, SequencesExt, FiniteSets

CONSTANTS COMMANDS,    \* the command words, in the order of the code
          Rules,       \* the rules of context_candidates, in the order of the code
          Lists,       \* what can be offered, by the name a rule has for it
          Dirs,        \* the entries of a directory, by its path with the "/" ("" is ".")
          Home,        \* $HOME
          Letters,     \* the characters that are typed
          Wide,        \* those that take two bytes in UTF-8
          MENU_ROWS, CAP, MaxLine

ASSUME BoundsAssumption == MENU_ROWS \in Nat \ {0} /\ CAP \in Nat \ {0} /\ MaxLine \in Nat

Blank == " "
Offered == {COMMANDS} \cup Range(Lists) \cup Range(Dirs)
Chars == Letters \cup {Blank} \cup Range(Home) \cup UNION {Range(w) : w \in UNION {Range(ws) : ws \in Offered}}
Word == Seq(Chars \ {Blank}) \ {<<>>}

(* What is offered is text, whatever is in it; the marks None and Panic are *)
(* no lines.                                                                *)
ASSUME TextAssumption ==
  /\ Home \in Seq(Chars)
  /\ \A ws \in Offered : ws \in Seq(Range(ws)) /\ \A w \in Range(ws) : w \in Seq(Chars)
  /\ {"none", "panic"} \cap Chars = {}

VARIABLES line, cursor, mode, history, recall, saved, menu, file

clvars == <<line, cursor, mode, history, recall, saved, menu, file>>

Closed == [open |-> FALSE, items |-> <<>>, selected |-> 0, offset |-> 0]
OpenWith(items) == [Closed EXCEPT !.open = TRUE, !.items = items]
NoRecall == 0
None == <<"none">>    \* no saved text

(***************************************************************************)
(* Words and candidates.                                                   *)
(***************************************************************************)
(* split_whitespace: a character opens a word behind a blank, else it       *)
(* extends the last one.                                                    *)
WithChar(words, s, i) ==
  IF s[i] = Blank THEN words
  ELSE IF words = <<>> \/ s[i - 1] = Blank THEN Append(words, <<s[i]>>)
  ELSE Append(Front(words), Append(Last(words), s[i]))

Words(s) ==
  LET words[i \in 0..Len(s)] == IF i = 0 THEN <<>> ELSE WithChar(words[i - 1], s, i)
  IN  words[Len(s)]

EndsBlank(s) == s = <<>> \/ s[Len(s)] = Blank
Token(s) == IF EndsBlank(s) THEN <<>> ELSE Last(Words(s))
Head0(s) == IF EndsBlank(s) THEN Words(s) ELSE Front(Words(s))

Greatest(S, d) == IF S = {} THEN d ELSE CHOOSE x \in S : \A y \in S : y <= x
Least(S, d) == IF S = {} THEN d ELSE CHOOSE x \in S : \A y \in S : x <= y

(* Mutant: the whole list is offered, whatever was typed. *)
StartingWith_any(words, token) == words

StartingWith(words, token) ==
  LET hits[i \in 0..Len(words)] ==
        IF i = 0 THEN <<>> ELSE IF IsPrefix(token, words[i]) THEN Append(hits[i - 1], words[i]) ELSE hits[i - 1]
  IN  hits[Len(words)]

(* "~" and "~/..." stand for the home directory. *)
expand_tilde(token) ==
  IF token = <<"~">> \/ (Len(token) > 1 /\ token[1] = "~" /\ token[2] = "/") THEN Home \o Tail(token) ELSE token

(* A name is listed if it starts with what was typed of it; one with a dot  *)
(* in front only if the dot was typed.                                      *)
Listed(name, rest) == IsPrefix(rest, name) /\ (IsPrefix(<<".">>, name) => IsPrefix(<<".">>, rest))

Paths(names, dir, rest) ==
  LET paths[i \in 0..Len(names)] ==
        IF i = 0 THEN <<>> ELSE IF Listed(names[i], rest) THEN Append(paths[i - 1], dir \o names[i]) ELSE paths[i - 1]
  IN  paths[Len(names)]

(* The directory is the part up to the last "/", as it was typed. *)
PathsAt(full, cut) ==
  IF SubSeq(full, 1, cut) \in DOMAIN Dirs
  THEN Paths(Dirs[SubSeq(full, 1, cut)], SubSeq(full, 1, cut), SubSeq(full, cut + 1, Len(full)))
  ELSE <<>>

LastSlash(full) == Greatest({i \in 1..Len(full) : full[i] = "/"}, 0)
complete_path(token) == PathsAt(expand_tilde(token), LastSlash(expand_tilde(token)))

IsFlag(w) == Len(w) >= 2 /\ w[1] = "-" /\ w[2] = "-"

(* A rule asks for the words the line begins with, how many there are, the  *)
(* last of them (a flag that takes a value; <<>>: any), a token that begins *)
(* like a flag, and that only flags follow the words asked for.             *)
Fits(rule, head, token) ==
  /\ IsPrefix(rule.words, head) /\ Len(head) \in rule.len
  /\ rule.last = <<>> \/ rule.last = Last(head)
  /\ rule.dashes => IsFlag(token)
  /\ rule.free => \A i \in (Len(rule.words) + 1)..Len(head) : IsFlag(head[i])

(* The first rule that fits answers: a flag that takes no value falls       *)
(* through to the rules of its command.                                     *)
RoleAt(head, token) ==
  IF \E i \in DOMAIN Rules : Fits(Rules[i], head, token)
  THEN Rules[Least({i \in DOMAIN Rules : Fits(Rules[i], head, token)}, 0)].offers ELSE "nothing"

FromList(role, token) ==
  IF role = "path" THEN complete_path(token)
  ELSE IF role \in DOMAIN Lists THEN StartingWith(Lists[role], token) ELSE <<>>

context_candidates(head, token) == FromList(RoleAt(head, token), token)

CandidatesAt(head, token) ==
  IF head = <<>> THEN StartingWith(COMMANDS, token) ELSE context_candidates(head, token)
candidates(s) == CandidatesAt(Head0(s), Token(s))

Bytes(w) == Len(w) + Cardinality({i \in DOMAIN w : w[i] \in Wide})

(* String::truncate by bytes; Panic if the cut is inside a character. *)
Panic == <<"panic">>
truncate(w, n) ==
  IF Bytes(w) <= n THEN w
  ELSE IF \E k \in 0..Len(w) : Bytes(SubSeq(w, 1, k)) = n
  THEN SubSeq(w, 1, CHOOSE k \in 0..Len(w) : Bytes(SubSeq(w, 1, k)) = n)
  ELSE Panic

SameChars(p, w) ==
  CHOOSE n \in 0..Len(p) :
    /\ n <= Len(w) /\ \A i \in 1..n : p[i] = w[i]
    /\ n = Len(p) \/ n = Len(w) \/ p[n + 1] # w[n + 1]

(* The number of equal characters is used as a number of bytes. *)
Shorter(p, w) == IF p = Panic THEN p ELSE truncate(p, SameChars(p, w))

common_prefix(words) ==
  LET p[i \in 0..Len(words)] == IF i = 0 THEN words[1] ELSE Shorter(p[i - 1], words[i])
  IN  p[Len(words)]

Joined(head) ==
  LET joined[i \in 0..Len(head)] == IF i = 0 THEN <<>> ELSE joined[i - 1] \o Append(head[i], Blank)
  IN  joined[Len(head)]

(* The line that is completed as far as it is certain, and the choices.    *)
Item(base, c) == base \o c \o (IF IsSuffix(<<"/">>, c) THEN <<>> ELSE <<Blank>>)
Common(base, p) == IF p = Panic THEN Panic ELSE base \o p

Completion(s, cs, base) ==
  CASE cs = <<>> -> [common |-> s, items |-> <<>>]
    [] Len(cs) = 1 -> [common |-> Item(base, cs[1]), items |-> <<>>]
    [] Len(cs) > 1 -> [common |-> Common(base, common_prefix(cs)), items |-> [i \in DOMAIN cs |-> Item(base, cs[i])]]

complete(s) == Completion(s, candidates(s), Joined(Head0(s)))

(***************************************************************************)
(* MenuState                                                               *)
(***************************************************************************)
scroll(m) ==
  [m EXCEPT !.offset = IF m.selected < @ THEN m.selected
                       ELSE IF m.selected >= @ + MENU_ROWS THEN m.selected + 1 - MENU_ROWS ELSE @]

down(m) == scroll([m EXCEPT !.selected = (@ + 1) % Len(m.items)])
up(m) == scroll([m EXCEPT !.selected = IF @ = 0 THEN Len(m.items) - 1 ELSE @ - 1])
refresh(items) == IF items = <<>> THEN Closed ELSE OpenWith(items)

(***************************************************************************)
(* LineBuffer                                                              *)
(***************************************************************************)
Alnum(c) == c \notin {Blank, "-", "/"}
WordStarts == {i \in 1..Len(line) : Alnum(line[i]) /\ (i = 1 \/ ~Alnum(line[i - 1]))}
WordEnds == {i \in 1..Len(line) : Alnum(line[i]) /\ (i = Len(line) \/ ~Alnum(line[i + 1]))}

word_left == Greatest({i - 1 : i \in {j \in WordStarts : j - 1 < cursor}}, cursor)
word_right == Least({i \in WordEnds : i > cursor}, Len(line))
kill_word_start == Greatest({i - 1 : i \in {j \in WordStarts : j - 1 < cursor}}, 0)

Before == SubSeq(line, 1, cursor)
Behind == SubSeq(line, cursor + 1, Len(line))

(***************************************************************************)
(* Keys.                                                                   *)
(***************************************************************************)
(* An open menu follows the line; a client that panics shows none. *)
Followed(comp) ==
  IF menu.open /\ comp.common = Panic THEN mode' = "panicked" /\ menu' = Closed
  ELSE UNCHANGED mode /\ menu' = IF menu.open THEN refresh(comp.items) ELSE menu
Follow(l) == Followed(complete(l))

(* A key that changes the line ends the history walk, at the ends of the    *)
(* line too.                                                                *)
(* Mutant: the history walk goes on. *)
Mutated_walking(l, c) == line' = l /\ cursor' = c /\ Follow(l) /\ UNCHANGED <<history, file, recall, saved>>

Mutated(l, c) ==
  /\ line' = l /\ cursor' = c /\ Follow(l)
  /\ recall' = NoRecall /\ saved' = None
  /\ UNCHANGED <<history, file>>

Editing == mode = "Command"

enter_command_mode ==
  /\ mode = "Normal"
  /\ mode' = "Command" /\ line' = <<>> /\ cursor' = 0 /\ menu' = Closed
  /\ recall' = NoRecall /\ saved' = None
  /\ UNCHANGED <<history, file>>

Insert(c) ==
  /\ Editing /\ Len(line) < MaxLine /\ ~(menu.open /\ c \in {"j", "k"})
  /\ Mutated(Before \o <<c>> \o Behind, cursor + 1)

Backspace == Editing /\ IF cursor > 0 THEN Mutated(Front(Before) \o Behind, cursor - 1) ELSE Mutated(line, cursor)
Delete == Editing /\ IF cursor < Len(line) THEN Mutated(Before \o Tail(Behind), cursor) ELSE Mutated(line, cursor)
KillWord == Editing /\ Mutated(SubSeq(line, 1, kill_word_start) \o Behind, kill_word_start)
KillToStart == Editing /\ Mutated(Behind, 0)
KillToEnd == Editing /\ Mutated(Before, cursor)

(* Left, Right without a menu, Home, End and the word keys. *)
Move(c) == Editing /\ c # cursor /\ cursor' = c /\ UNCHANGED <<line, mode, history, recall, saved, menu, file>>
MoveKey ==
  \/ cursor > 0 /\ Move(cursor - 1)
  \/ ~menu.open /\ cursor < Len(line) /\ Move(cursor + 1)
  \/ Move(0) \/ Move(Len(line)) \/ Move(word_left) \/ Move(word_right)

MenuMove ==
  /\ Editing /\ menu.open
  /\ \E m \in {up(menu), down(menu)} : menu' = m
  /\ UNCHANGED <<line, cursor, mode, history, recall, saved, file>>

(* Right, Tab and Enter on an open menu. *)
accept_menu_selection ==
  /\ Editing /\ menu.open
  /\ LET l == menu.items[menu.selected + 1]
     IN  line' = l /\ cursor' = Len(l) /\ Follow(l)
  /\ recall' = NoRecall /\ saved' = None
  /\ UNCHANGED <<history, file>>

Completed(comp) ==
  IF comp.common = Panic
  THEN mode' = "panicked" /\ UNCHANGED <<line, cursor, history, recall, saved, menu, file>>
  ELSE /\ line' = comp.common
       /\ cursor' = IF candidates(line) = <<>> THEN cursor ELSE Len(line')
       /\ menu' = IF comp.items = <<>> THEN Closed ELSE OpenWith(comp.items)
       /\ recall' = NoRecall /\ saved' = None
       /\ UNCHANGED <<mode, history, file>>
TabKey == Editing /\ ~menu.open /\ Completed(complete(line))

(***************************************************************************)
(* History.                                                                *)
(***************************************************************************)
Prefix == IF recall # NoRecall /\ saved # None THEN saved ELSE line

(* Up: the next older entry that starts with what was typed. *)
prev ==
  LET keep == IF recall = NoRecall THEN line ELSE saved
      p    == IF recall = NoRecall THEN line ELSE Prefix
      from == IF recall = NoRecall THEN Len(history) + 1 ELSE recall
      at   == Greatest({i \in 1..(from - 1) : IsPrefix(p, history[i])}, 0)
  IN  /\ Editing /\ ~menu.open
      /\ saved' = keep
      /\ IF at = 0 THEN UNCHANGED <<line, cursor, recall>>
         ELSE line' = history[at] /\ cursor' = Len(history[at]) /\ recall' = at
      /\ UNCHANGED <<mode, history, menu, file>>

(* Down: the next newer one, and in the end what was typed. *)
next ==
  LET at == Least({i \in (recall + 1)..Len(history) : IsPrefix(Prefix, history[i])}, 0)
  IN  /\ Editing /\ ~menu.open /\ recall # NoRecall
      /\ IF at # 0 THEN line' = history[at] /\ recall' = at /\ UNCHANGED saved
         ELSE line' = saved /\ recall' = NoRecall /\ saved' = None
      /\ cursor' = Len(line')
      /\ UNCHANGED <<mode, history, menu, file>>

Trim(s) ==
  LET solid == {i \in 1..Len(s) : s[i] # Blank}
  IN  IF solid = {} THEN <<>> ELSE SubSeq(s, Least(solid, 0), Greatest(solid, 0))

submitted(l) ==
  LET h == Append(history, Trim(l))
  IN  IF Trim(l) = <<>> \/ (history # <<>> /\ Last(history) = Trim(l)) THEN history
      ELSE IF Len(h) > CAP THEN Tail(h) ELSE h

(* Enter without a menu: the command runs, then the line enters the        *)
(* history and the history is written; a failed write is ignored.          *)
Execute ==
  /\ Editing /\ ~menu.open
  /\ history' = submitted(line) /\ file' \in {file, history'}
  /\ recall' = NoRecall /\ saved' = None
  /\ mode' = "Normal" /\ line' = <<>> /\ cursor' = 0 /\ menu' = Closed

Esc ==
  /\ Editing
  /\ IF menu.open THEN menu' = Closed /\ UNCHANGED <<mode, line, cursor>>
     ELSE mode' = "Normal" /\ line' = <<>> /\ cursor' = 0 /\ menu' = Closed
  /\ UNCHANGED <<history, recall, saved, file>>

(* A new process: load_from drops repeated lines and keeps the newest CAP. *)
WithLine(lines, l) == IF lines # <<>> /\ Last(lines) = l THEN lines ELSE Append(lines, l)

dedup(f) ==
  LET lines[i \in 0..Len(f)] == IF i = 0 THEN <<>> ELSE WithLine(lines[i - 1], f[i])
  IN  lines[Len(f)]

load_from(f) == SubSeq(dedup(f), Greatest({1, Len(dedup(f)) - CAP + 1}, 1), Len(dedup(f)))

Restart ==
  /\ history' = load_from(file)
  /\ mode' = "Normal" /\ line' = <<>> /\ cursor' = 0 /\ menu' = Closed /\ recall' = NoRecall /\ saved' = None
  /\ UNCHANGED file

CLInit ==
  /\ line = <<>> /\ cursor = 0 /\ mode = "Normal" /\ menu = Closed
  /\ history = <<>> /\ recall = NoRecall /\ saved = None /\ file = <<>>

CLNext ==
  \/ enter_command_mode \/ (\E c \in Letters : Insert(c)) \/ Backspace \/ Delete
  \/ KillWord \/ KillToStart \/ KillToEnd \/ MoveKey \/ MenuMove \/ accept_menu_selection \/ TabKey
  \/ prev \/ next \/ Execute \/ Esc \/ Restart

CLSpec == CLInit /\ [][CLNext]_clvars

(***************************************************************************)
(* Properties.                                                             *)
(***************************************************************************)
(* A line goes on from another: it begins with it as it was typed, or with *)
(* its words one blank apart, the last of them perhaps with its "~"         *)
(* replaced by the home directory. Nothing else that was typed is lost.     *)
Typed(s, head, token) == {s, Joined(head) \o token, Joined(head) \o expand_tilde(token)}
GoesOn(s, t) == \E p \in Typed(s, Head0(s), Token(s)) : IsPrefix(p, t)

(* Every choice of an open menu goes on from the line as it now is, so      *)
(* accepting one never replaces something else, and the selection is one of *)
(* the choices and in the window that is drawn: a key that edits the line,  *)
(* completes it, accepts an item or wraps around keeps all three, also for  *)
(* names with blanks in them and paths below "~".                           *)
MenuFollowsLine ==
  menu.open =>
    /\ menu.selected < Len(menu.items)
    /\ menu.offset <= menu.selected /\ menu.selected < menu.offset + MENU_ROWS
    /\ \A i \in DOMAIN menu.items : GoesOn(line, menu.items[i])

(* While Up and Down walk the history, the line is the entry that was      *)
(* reached and starts with what was typed before the walk.                 *)
WalkShowsEntry ==
  Editing /\ recall # NoRecall => line = history[recall] /\ saved # None /\ IsPrefix(saved, line)

(* The history never holds the same line twice in a row, across typing,    *)
(* the cap and a restart from the file.                                    *)
NoRepeats == \A i \in 1..(Len(history) - 1) : history[i] # history[i + 1]

AllAscii(words) == \A i \in DOMAIN words : Range(words[i]) \cap Wide = {}

(* Tab never loses what was typed: where every candidate is ASCII the       *)
(* client goes on, and the completed line goes on from the one before it.   *)
(* (common_prefix counts characters and cuts bytes: with another candidate  *)
(* the cut may be inside a character, a panic, or before the token's end.)  *)
CompletionKeepsTyped ==
  [][TabKey /\ AllAscii(candidates(line)) => mode' = "Command" /\ GoesOn(line, line')]_clvars

(* The line and what is shown for it agree after every key: the menu goes  *)
(* on from the line as it is now, and Up and Down show entries as they     *)
(* were typed, none twice in a row.                                        *)
LineSound == MenuFollowsLine /\ WalkShowsEntry /\ NoRepeats
==============================================================================
