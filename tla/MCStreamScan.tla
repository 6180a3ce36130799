----------------------------- MODULE MCStreamScan -----------------------------
(***************************************************************************)
(* Small instances of StreamScan: every short file, and diffs of one or    *)
(* two files whose lines are signs before what a scan may find or mask.    *)
(***************************************************************************)
EXTENDS StreamScan, SecretPatterns, TLC

\* The scanners of the machines, and the searches they are compared with.
MCadvance(kind, s, c) == FeedCharacter(Machines[kind], s, c)
MCfinish(kind, s) == Finish(Machines[kind], s)
MCFoundIn(kind, t) == Found(t, Patterns[kind])
MCBeginsKey(t) == Search(t, PEMBegin)

\* bounds: characters of a file, of a text for the scanners alone and of a line
\* between empty lines, of a line between others, and of those
MCMaxText == 5
MCMaxAlone == 4
MCMaxLine == 3
MCMaxNext == 1
TextsUpTo(length) == UNION {[1..n -> Characters] : n \in 0..length}

\* What the scan rests on.
ASSUME ScannersAssumption == ScannersAreExact(TextsUpTo(MCMaxAlone))
ASSUME LinesAssumption ==
  FoundWithinLines(
    {<<<<>>, line, <<>>>> : line \in TextsUpTo(MCMaxAlone)}
      \cup {<<a, line, b>> : a, b \in TextsUpTo(MCMaxNext), line \in TextsUpTo(MCMaxLine)})

\* The headers of a diff of two files.
MCDiffHeaders == "diff x" :> "x" @@ "diff y" :> "y"
MCOldHeaders == "--- x" :> "x" @@ "--- y" :> "y" @@ "--- /dev/null" :> "/dev/null"
MCNewHeaders == "+++ x" :> "x" @@ "+++ y" :> "y"
MCHunkHeaders == "@@ 1 2" :> <<1, 2>> @@ "@@ 2 1" :> <<2, 1>> @@ "@@ 0 1" :> <<0, 1>>

MCAlphabet ==
  Characters \cup Signs \cup {"-- ", "++ ", Placeholder[1], MalformedHunk}
    \cup UNION {DOMAIN h : h \in {MCDiffHeaders, MCOldHeaders, MCNewHeaders, MCHunkHeaders}}
MCWordCharacters == {"p", "t", "DOCUMENTED_SYNTHETIC_FIXTURE"}

\* Nothing is documented, a token in the second line, or the beginning and the
\* end of a private key.
MCDocuments ==
  {<<>>, "x" :> <<<<"p">>, <<"t", "t", "t">>>>, "x" :> <<<<"=", "=">>, <<"p", "=">>>>}
MCRetired == "x" :> <<<<"=", "=">>>>

\* The lines of a hunk.
Token3 == <<"t", "t", "t">>
Reference == <<"p", "=", "p", "p">>
MCLines ==
  {<<"+">> \o Token3, <<"-">> \o Token3, <<" ">> \o Token3,
   <<"+", "=", "=">>, <<"-", "=", "=">>, <<"-", "p", "=">>, <<"-", "p", "=", "=">> \o Token3,
   <<"+">> \o Reference, <<"+", "t", "=">>, <<"--- y">>, <<"+++ y">>}

\* Lines that end with CR LF, and lines with a CR within.
MCReturned ==
  {<<"+">> \o Token3 \o <<"CR">>, <<"-">> \o Token3 \o <<"CR">>, <<" ", "=", "=", "CR">>,
   <<"+", "CR">>}
MCBare == {<<"+", "CR", "-">> \o Token3, <<"-", "CR", "+">> \o Token3}

\* A file of a diff, by its lines.
File(path, old, new, hunk, lines) == <<<<path>>, <<old>>, <<new>>, <<hunk>>>> \o lines
FileX(lines) == File("diff x", "--- x", "+++ x", "@@ 1 2", lines)
FileY(lines) == File("diff y", "--- y", "+++ y", "@@ 2 1", lines)

MCBareDiffs == {FileX(<<a, b>>) : a \in MCBare, b \in MCLines}
MCDiffs ==
  LET Two == {<<a, b>> : a \in MCLines, b \in MCLines} IN
  {FileX(l) : l \in Two}
    \cup {FileX(<<l[1]>>) \o FileY(<<l[2]>>) : l \in Two}
    \cup {FileY(<<l[1]>>) \o FileX(<<l[2]>>) : l \in Two}
    \cup {FileY(<<a>>) \o File("diff x", "--- /dev/null", "+++ x", "@@ 0 1", <<a>>) :
            a \in MCLines}
    \cup {FileX(<<a>>) \o <<<<"@@">>, a>> : a \in MCLines}
    \cup {<<<<"diff x">>, <<"@@ 1 2">>, a>> : a \in MCLines}
    \cup {FileX(<<a, b>>) : a \in MCReturned, b \in MCReturned \cup MCLines}
    \cup MCBareDiffs

TextsOf(diffs) ==
  {FoldLeft(LAMBDA t, line : t \o Append(line, "LF"), <<>>, d) : d \in diffs}
MCDiffTexts == TextsOf(MCDiffs)
MCBareTexts == TextsOf(MCBareDiffs)

MCFileTexts == TextsUpTo(MCMaxText)
MCTexts == MCFileTexts \cup MCDiffTexts

=============================================================================
