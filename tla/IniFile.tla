------------------------------ MODULE IniFile ------------------------------
(***************************************************************************)
(* The configuration file reader of src/IniFile.cxx: ReadIniFile reads     *)
(* the file with fgets into a 4096-byte buffer and hands every chunk to    *)
(* IniParser::ParseLine, which fills a map from section names to maps of   *)
(* keys.                                                                   *)
(*                                                                         *)
(* A chunk of text is abstracted to the branch of ParseLine it takes: its  *)
(* Shape.  Values are left out (no property tells them apart).  A          *)
(* physical line longer than the buffer is read as two chunks, its head    *)
(* and its tail.                                                           *)
(***************************************************************************)
EXTENDS Integers, Sequences, SequencesExt, FiniteSets

CONSTANTS
  SectionNames,  \* valid section names (model values)
  Keys,          \* valid keys (model values)
  Global,        \* the section "" that holds keys before any section
  NoArg,         \* the argument of a shape without a name
  MaxLines,      \* bound on the number of physical lines
  LongLines      \* may a line be longer than the fgets buffer?

ASSUME /\ Global \notin SectionNames
       /\ NoArg \notin SectionNames \cup Keys
       /\ MaxLines \in Nat /\ LongLines \in BOOLEAN

\* the ways ParseLine rejects a chunk, in the order of its checks
SectionErrors == {"missing_bracket", "invalid_section_name",
                  "garbage_after_section"}
KeyErrors     == {"missing_equals", "invalid_key"}
Errors        == SectionErrors \cup KeyErrors \cup {"syntax_error"}

Shapes ==
  [kind : {"blank", "comment"}, arg : {NoArg}]
    \cup [kind : {"section"}, arg : SectionNames]
    \cup [kind : {"key"}, arg : Keys]
    \cup [kind : Errors, arg : {NoArg}]

\* a physical line: its first buffer's worth, and the rest if it is longer
NoTail == [kind |-> "none", arg |-> NoArg]

PhysLines ==
  [head : Shapes, tail : {NoTail}]
    \cup IF LongLines
         THEN [head : {s \in Shapes : s.kind \in {"comment", "key"}},
               tail : Shapes]
         ELSE {}

VARIABLES
  lines,    \* the file: a sequence of physical lines
  chunks,   \* what fgets has still to return
  secs,     \* IniFile: the section names of the map
  entries,  \* IniFile: the pairs <<section, key>> of the map
  section,  \* IniParser::section: the section keys go into
  no,       \* ReadIniFile: the line number reported on error
  status,   \* "opening", "parsing", "done" or "failed"
  err       \* the exception: [msg, line], line 0 for fopen

vars == <<lines, chunks, secs, entries, section, no, status, err>>

-----------------------------------------------------------------------------
(* fgets: the chunks of the file                                           *)

ChunksOf(ls) ==
  FlattenSeq([i \in DOMAIN ls |->
                IF ls[i].tail = NoTail THEN <<ls[i].head>>
                ELSE <<ls[i].head, ls[i].tail>>])

Fail(msg) == status' = "failed" /\ err' = [msg |-> msg, line |-> no]

\* mutant: a key before any section is stored without creating the ""
\* section, so the parser's iterator is left unset
KeySectionNoGlobal == section

\* the section a key goes into: "" is created if the map is still empty
KeySection == IF secs = {} THEN Global ELSE section

\* IniParser::ParseLine on one chunk c
ParseLine(c) ==
  CASE c.kind \in {"blank", "comment"} ->
         UNCHANGED <<secs, entries, section, status, err>>
    [] c.kind \in Errors ->
         /\ Fail(c.kind)
         /\ UNCHANGED <<secs, entries, section>>
    [] c.kind = "section" /\ c.arg \in secs ->
         /\ Fail("duplicate_section")
         /\ UNCHANGED <<secs, entries, section>>
    [] c.kind = "section" ->
         /\ secs' = secs \cup {c.arg}
         /\ section' = c.arg
         /\ UNCHANGED <<entries, status, err>>
    [] c.kind = "key" /\ <<KeySection, c.arg>> \in entries ->
         /\ Fail("duplicate_key")
         /\ UNCHANGED <<secs, entries, section>>
    [] c.kind = "key" ->
         /\ secs' = secs \cup {KeySection}
         /\ section' = KeySection
         /\ entries' = entries \cup {<<KeySection, c.arg>>}
         /\ UNCHANGED <<status, err>>

-----------------------------------------------------------------------------
(* ReadIniFile                                                             *)

\* fopen succeeds, or fails with "Failed to open"
Open ==
  /\ status = "opening"
  /\ \/ status' = "parsing" /\ UNCHANGED err
     \/ status' = "failed" /\ err' = [msg |-> "open_failed", line |-> 0]
  /\ UNCHANGED <<lines, chunks, secs, entries, section, no>>

\* one iteration of the fgets loop; a ParseLine error ends the loop
ReadLine ==
  /\ status = "parsing"
  /\ chunks # <<>>
  /\ ParseLine(Head(chunks))
  /\ chunks' = Tail(chunks)
  /\ no' = no + 1
  /\ UNCHANGED lines

\* fgets returns NULL: the parser commits its map
Commit ==
  /\ status = "parsing"
  /\ chunks = <<>>
  /\ status' = "done"
  /\ UNCHANGED <<lines, chunks, secs, entries, section, no, err>>

Init ==
  /\ lines \in UNION {[1..n -> PhysLines] : n \in 0..MaxLines}
  /\ chunks = ChunksOf(lines)
  /\ secs = {}
  /\ entries = {}
  /\ section = NoArg
  /\ no = 1
  /\ status = "opening"
  /\ err = [msg |-> "none", line |-> 0]

Next == Open \/ ReadLine \/ Commit

Spec == Init /\ [][Next]_vars /\ WF_vars(Next)

-----------------------------------------------------------------------------
(* What the file means to its reader: every physical line is what its     *)
(* first characters make it; a key belongs to the last section above it,  *)
(* or to "" when there is none; a name used twice, or a malformed line,   *)
(* rejects the file at the first such line.                                *)

LastSectionBefore(ls, i) ==
  LET hs == {j \in 1..(i - 1) : ls[j].head.kind = "section"}
  IN  IF hs = {} THEN Global ELSE ls[Max(hs)].head.arg

RefBad(ls, i) ==
  LET h == ls[i].head
  IN  \/ h.kind \in Errors
      \/ h.kind = "section"
         /\ \E j \in 1..(i - 1) : ls[j].head = h
      \/ h.kind = "key"
         /\ \E j \in 1..(i - 1) :
              /\ ls[j].head = h
              /\ LastSectionBefore(ls, j) = LastSectionBefore(ls, i)

RefResult(ls) ==
  LET bad == {i \in DOMAIN ls : RefBad(ls, i)}
      keyLines == {i \in DOMAIN ls : ls[i].head.kind = "key"}
  IN  IF bad # {}
      THEN [error |-> Min(bad)]
      ELSE [secs    |-> {ls[i].head.arg : i \in {j \in DOMAIN ls :
                                      ls[j].head.kind = "section"}}
                        \cup {LastSectionBefore(ls, i) : i \in keyLines},
            entries |-> {<<LastSectionBefore(ls, i), ls[i].head.arg>> :
                           i \in keyLines}]

-----------------------------------------------------------------------------

Messages == Errors \cup {"duplicate_section", "duplicate_key", "open_failed",
                         "none"}

TypeOK ==
  /\ lines \in Seq(PhysLines)
  /\ chunks \in Seq(Shapes)
  /\ secs \subseteq SectionNames \cup {Global}
  /\ entries \subseteq (SectionNames \cup {Global}) \X Keys
  /\ section \in SectionNames \cup {Global, NoArg}
  /\ no \in 1..(2 * MaxLines + 1)
  /\ status \in {"opening", "parsing", "done", "failed"}
  /\ err \in [msg : Messages, line : 0..(2 * MaxLines)]

\* When ReadIniFile has read the file without error, the map it returns
\* holds exactly the sections and keys the file's lines give them; when it
\* rejects the file, the file is malformed and the reported line number is
\* the first offending physical line ("Error on %s line %u").
ParseMatchesReference ==
  /\ status = "done" =>
       /\ "secs" \in DOMAIN RefResult(lines)
       /\ secs = RefResult(lines).secs
       /\ entries = RefResult(lines).entries
  /\ status = "failed" /\ err.msg # "open_failed" =>
       RefResult(lines) = [error |-> err.line]

====
