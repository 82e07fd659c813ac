--------------------------------- MODULE INI ---------------------------------
(***************************************************************************)
(* An INI file and the sections and entries read from it                   *)
(* (include/buntils/INI*.h, buntils/INI*.cpp and INIParser.c).  An edit    *)
(* changes the nodes in memory and the text, which it opens when it is not *)
(* open yet.  The text is its lines, all but the last one ended by '\n';   *)
(* names are sequences of letters, for a search of the text compares no    *)
(* more of them than the shorter one has.                                  *)
(***************************************************************************)
EXTENDS Naturals, Sequences, FiniteSets, TLC

CONSTANTS Section, Key,  \* the names that calls give
          Value,
          File,          \* the files there may be at first
          MaxLines,      \* bound on the lines of the text
          Closed         \* no text is open

Seqs == INSTANCE SequencesExt

VARIABLES ini,    \* the sections, the text, the file, and whether they may differ
          want,   \* history: what the sections should hold
          right   \* history: every result so far was the right one

vars == <<ini, want, right>>

None == 0                  \* no value: the entry is to be deleted
New == 255                 \* the instance ~0
Blank == [kind |-> "blank"]
SectionLine(name) == [kind |-> "section", name |-> name]
EntryLine(key, val, comment) == [kind |-> "entry", name |-> key, val |-> val, comment |-> comment]
Comment == [kind |-> "comment"]

(***************************************************************************)
(* A list of nodes, with the nodes of each name in a hash: the first, then *)
(* its `instances'.  Sections are kept in one, the entries of each in one. *)
(***************************************************************************)
NoNodes == [list |-> <<>>, hash |-> <<>>, val |-> <<>>]
Has(m, name) == name \in DOMAIN m.hash
Capacity(m, name) == Len(m.hash[name]) - 1
Node(m, name, instance) == m.hash[name][instance + 1]
Get(m, name, instance) ==
  IF ~Has(m, name) \/ instance > Capacity(m, name) THEN None ELSE Node(m, name, instance)
Num(m, name) == IF Has(m, name) THEN Capacity(m, name) + 1 ELSE 0

Added(m, name, v) ==
  LET p == CHOOSE n \in 1..Len(m.list) + 1 : n \notin DOMAIN m.val
      t == IF Has(m, name) THEN Seqs!Last(m.hash[name]) ELSE Seqs!Last(m.list)
      at == IF m.list = <<>> THEN 0 ELSE CHOOSE i \in DOMAIN m.list : m.list[i] = t
  IN  [list |-> Seqs!InsertAt(m.list, at + 1, p),
       hash |-> (name :> IF Has(m, name) THEN Append(m.hash[name], p) ELSE <<p>>) @@ m.hash,
       val |-> (p :> v) @@ m.val]

\* The first of several nodes takes the value of the next one in the list, which goes.
Without(m, name, instance) ==
  LET first == instance = 0 /\ Capacity(m, name) > 0
      node == Node(m, name, instance)
      at == CHOOSE i \in DOMAIN m.list : m.list[i] = node
      gone == IF first THEN m.list[at + 1] ELSE node
      place == IF first THEN 1 ELSE instance
      moved == IF first THEN [m.val EXCEPT ![node] = m.val[gone]] ELSE m.val
  IN  [list |-> SelectSeq(m.list, LAMBDA n : n # gone),
       hash |-> IF place = 0 THEN [x \in DOMAIN m.hash \ {name} |-> m.hash[x]]
                ELSE [m.hash EXCEPT ![name] = Seqs!RemoveAt(@, place + 1)],
       val |-> [n \in DOMAIN m.val \ {gone} |-> moved[n]]]

NewSection(m, name) == Added(m, name, [index |-> Num(m, name), entries |-> NoNodes])
AddEntry(m, node, key, v) == [m EXCEPT !.val[node].entries = Added(@, key, v)]
\* The sections behind the one that goes get the index before theirs.
DropSection(m, name, instance) ==
  LET place == IF instance = 0 /\ Capacity(m, name) > 0 THEN 1 ELSE instance
      d == Without(m, name, instance)
      d0 == IF instance # place THEN [d EXCEPT !.val[Node(m, name, 0)].index = 0] ELSE d
      behind == IF place = 0 THEN {} ELSE {m.hash[name][i] : i \in place + 2..Len(m.hash[name])}
  IN  [d0 EXCEPT !.val = [n \in DOMAIN @ |-> IF n \in behind THEN [@[n] EXCEPT !.index = @ - 1] ELSE @[n]]]

(***************************************************************************)
(* The text                                                                *)
(***************************************************************************)
\* fgets at the end of a text that ends with a section and '\n' leaves the line as it
\* was read before, and the section without its ']' is one again.
ParseLines(text) ==
  LET n == Len(text)
  IN  IF n > 1 /\ text[n] = Blank /\ text[n - 1].kind = "section" THEN Append(text, text[n - 1]) ELSE text

LoadLine(m, line) ==
  IF line.kind = "section" THEN [m |-> NewSection(m.m, line.name), cur |-> line.name]
  ELSE IF line.kind # "entry" THEN m
  ELSE LET s == IF m.cur = Closed THEN [m |-> NewSection(m.m, <<>>), cur |-> <<>>] ELSE m
       IN  [s EXCEPT !.m = AddEntry(@, Seqs!Last(@.hash[s.cur]), line.name, line.val)]
Load(text) == Seqs!FoldLeft(LoadLine, [m |-> NoNodes, cur |-> Closed], ParseLines(text)).m

CompareValues(a, b) == LET n == IF Len(a) < Len(b) THEN Len(a) ELSE Len(b) IN SubSeq(a, 1, n) = SubSeq(b, 1, n)

\* The lines first..last of a section, and the line of an entry in them; 0 when not found.
Nth(found, instance) == IF Cardinality(found) <= instance THEN 0
                        ELSE CHOOSE i \in found : Cardinality({j \in found : j < i}) = instance
FindINISection(text, name, instance) ==
  LET start == Nth({i \in DOMAIN text : text[i].kind = "section" /\ CompareValues(text[i].name, name)}, instance)
      next == {i \in start + 1..Len(text) : text[i].kind = "section"}
  IN  [first |-> start,
       last |-> IF next = {} THEN Len(text) ELSE (CHOOSE i \in next : \A j \in next : i <= j) - 1]
FindINIEntry(text, chunk, key, instance) ==
  Nth({i \in chunk.first..chunk.last : text[i].kind = "entry" /\ CompareValues(text[i].name, key)}, instance)

\* Blank lines at the end go, unless there is nothing else; a blank line and the section follow.
AppendSection(text, name) ==
  LET full == {i \in DOMAIN text : text[i] # Blank}
  IN  IF full = {} THEN [text EXCEPT ![Len(text)] = SectionLine(name)]
      ELSE SubSeq(text, 1, CHOOSE i \in full : \A j \in full : j <= i) \o <<Blank, SectionLine(name)>>
\* "\nkey=value" goes before the '\n' at the end of the section, or the one before it.
InsertLine(text, chunk, line) ==
  Seqs!InsertAt(text, IF text[chunk.last] = Blank THEN chunk.last ELSE chunk.last + 1, line)
Erase(text, first, last) == SubSeq(text, 1, first - 1) \o SubSeq(text, last + 1, Len(text))
\* The last line has no '\n' to erase.
EraseSection(text, chunk) ==
  Erase(text, chunk.first, chunk.last) \o (IF chunk.last = Len(text) THEN <<Blank>> ELSE <<>>)
EraseLine(text, at) ==
  IF at < Len(text) THEN Erase(text, at, at)
  ELSE [text EXCEPT ![at] = IF text[at].comment THEN Comment ELSE Blank]
-----------------------------------------------------------------------------
Contents(m) ==
  [name \in DOMAIN m.hash |-> [i \in DOMAIN m.hash[name] |->
     LET e == m.val[m.hash[name][i]].entries
     IN  [key \in DOMAIN e.hash |-> [j \in DOMAIN e.hash[key] |-> e.val[e.hash[key][j]]]]]]

\* stale: the sections are not those of the text.
Opened(f) == [secs |-> Load(f), text |-> Closed, file |-> f, stale |-> ParseLines(f) # f]
Init == /\ \E f \in File : ini = Opened(f) /\ want = Contents(Load(f))
        /\ right = TRUE

\* _openINI
Text == IF ini.text = Closed THEN ini.file ELSE ini.text
Fits(text) == Len(text) <= MaxLines
WithSection(w, name) ==
  (name :> Append(IF name \in DOMAIN w THEN w[name] ELSE <<>>, <<>>)) @@ w

\* No edit is followed on sections that are not those of the text.
AddSection(name) ==
  /\ ~ini.stale
  /\ ini' = [ini EXCEPT !.secs = NewSection(@, name), !.text = AppendSection(Text, name)]
  /\ Fits(ini'.text)
  /\ want' = WithSection(want, name)
  /\ UNCHANGED right

RemoveSection(name, instance) ==
  LET chunk == FindINISection(Text, name, instance)
      ok == Has(ini.secs, name) /\ chunk.first # 0 /\ instance <= Capacity(ini.secs, name)
      there == name \in DOMAIN want /\ instance < Len(want[name])
  IN  /\ ~ini.stale
      /\ ini' = [ini EXCEPT !.secs = IF ok THEN DropSection(@, name, instance) ELSE @,
                            !.text = IF ok THEN EraseSection(Text, chunk) ELSE Text]
      /\ want' = IF ~ok THEN want
                 ELSE IF Len(want[name]) = 1 THEN [x \in DOMAIN want \ {name} |-> want[x]]
                 ELSE [want EXCEPT ![name] = Seqs!RemoveAt(@, instance + 1)]
      /\ right' = (right /\ (ok <=> there))

\* What is done to the entries of a section, in the history.
Edited(entries, key, keyinstance, v) ==
  LET old == IF key \in DOMAIN entries THEN entries[key] ELSE <<>>
      vals == IF keyinstance = New THEN Append(old, v)
              ELSE IF v = None THEN Seqs!RemoveAt(old, keyinstance + 1)
              ELSE [old EXCEPT ![keyinstance + 1] = v]
  IN  [k \in (DOMAIN entries \cup {key}) \ (IF vals = <<>> THEN {key} ELSE {}) |->
         IF k = key THEN vals ELSE entries[k]]

\* A new section is there even when the entry that is to be edited in it is not.
EditEntry(name, key, v, keyinstance, secinstance) ==
  LET secs == IF secinstance = New THEN NewSection(ini.secs, name) ELSE ini.secs
      text == IF secinstance = New THEN AppendSection(Text, name) ELSE Text
      si == IF secinstance = New THEN Num(secs, name) - 1 ELSE secinstance
      node == Get(secs, name, si)
      chunk == FindINISection(text, name, si)
      entries == secs.val[node].entries
      at == FindINIEntry(text, chunk, key, keyinstance)
      ok == /\ node # None /\ chunk.first # 0
            /\ keyinstance # New => Get(entries, key, keyinstance) # None /\ at # 0
      after == IF keyinstance = New THEN Added(entries, key, v)
               ELSE IF v = None THEN Without(entries, key, keyinstance)
               ELSE [entries EXCEPT !.val[Node(entries, key, keyinstance)] = v]
      lines == IF keyinstance = New THEN InsertLine(text, chunk, EntryLine(key, v, FALSE))
               ELSE IF v = None THEN EraseLine(text, at)
               ELSE [text EXCEPT ![at].val = v]
      w == IF secinstance = New THEN WithSection(want, name) ELSE want
      there == /\ name \in DOMAIN w /\ si < Len(w[name])
               /\ keyinstance # New => key \in DOMAIN w[name][si + 1] /\ keyinstance < Len(w[name][si + 1][key])
  IN  /\ ~ini.stale /\ (keyinstance = New => v # None)
      /\ ini' = [ini EXCEPT !.secs = IF ok THEN [secs EXCEPT !.val[node].entries = after] ELSE secs,
                            !.text = IF ok THEN lines ELSE text]
      /\ Fits(ini'.text)
      /\ want' = IF ok THEN [w EXCEPT ![name][si + 1] = Edited(@, key, keyinstance, v)] ELSE w
      /\ right' = (right /\ (ok <=> there))

\* The file may fail to open: then the text stays open.
EndINIEdit ==
  /\ ini.text # Closed
  /\ \E written \in BOOLEAN : ini' = IF written THEN [ini EXCEPT !.file = ini.text, !.text = Closed] ELSE ini
  /\ UNCHANGED <<want, right>>

\* The sections keep what was edited.
DiscardINIEdit ==
  /\ ini.text # Closed
  /\ ini' = [ini EXCEPT !.stale = @ \/ ini.text # ini.file, !.text = Closed]
  /\ UNCHANGED <<want, right>>

\* Another INIstorage is made of the file.
Reopen == ini' = Opened(ini.file) /\ want' = Contents(Load(ini.file)) /\ UNCHANGED right

Next == \/ \E name \in Section : AddSection(name)
        \/ \E name \in Section, instance \in 0..1 : RemoveSection(name, instance)
        \/ \E name \in Section, key \in Key, v \in Value \cup {None}, ki, si \in {0, 1, New} : EditEntry(name, key, v, ki, si)
        \/ EndINIEdit \/ DiscardINIEdit \/ Reopen

Spec == Init /\ [][Next]_vars
-----------------------------------------------------------------------------
\* The list is that of the hash, the nodes of a name side by side and in its order.
Linked(m) ==
  /\ {m.list[i] : i \in DOMAIN m.list} = DOMAIN m.val /\ Len(m.list) = Cardinality(DOMAIN m.val)
  /\ DOMAIN m.val = UNION {{m.hash[x][i] : i \in DOMAIN m.hash[x]} : x \in DOMAIN m.hash}
  /\ \A x \in DOMAIN m.hash :
       m.hash[x] # <<>> /\ \E i \in DOMAIN m.list : SubSeq(m.list, i, i + Len(m.hash[x]) - 1) = m.hash[x]
WellFormed ==
  /\ Linked(ini.secs) /\ \A n \in DOMAIN ini.secs.val : Linked(ini.secs.val[n].entries)
  /\ \A x \in DOMAIN ini.secs.hash : \A i \in DOMAIN ini.secs.hash[x] :
       ini.secs.val[ini.secs.hash[x][i]].index = i - 1

\* What is saved is what is in memory, read back from the text that is open.
Saved == Contents(Load(Text)) = want
\* Nothing was discarded, and the text does not end right after a section.
Careful == ~ini.stale /\ ParseLines(Text) = Text
=============================================================================
