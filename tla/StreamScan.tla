------------------------------ MODULE StreamScan ------------------------------
(***************************************************************************)
(* scripts/lit-push-ready.py: the secret scan of a file or of a diff that  *)
(* is read in pieces.  The pieces are split into lines; documented lines,  *)
(* bare Packer references and, in a diff, removed secrets are masked, and  *)
(* everything else goes through the pattern scanner.  Neither a line nor   *)
(* the text is ever looked at whole, and a diff is scanned up to three     *)
(* times, each time with other exceptions.                                 *)
(***************************************************************************)
EXTENDS LineSplitter

CONSTANTS
  FileTexts,     \* the files
  DiffTexts,     \* the diffs
  DiffPiece,     \* bound: a diff is read in pieces of that many characters
  Path,          \* the file that is scanned
  Documents,     \* what may be documented: path -> line number -> text
  Retired,       \* removed_fixture_lines: path -> line number -> text
  PackerPaths,   \* packer_paths
  NpmrcPaths,    \* paths named .npmrc
  DiffHeaders,   \* the beginning of a diff --git line -> path
  OldHeaders,    \* of a --- line -> path
  NewHeaders,    \* of a +++ line -> path
  HunkHeaders,   \* of a @@ line -> first lines in the old and in the new file
  NewScanner,    \* a scanner that has read nothing
  advance(_, _, _), finish(_, _),  \* PatternScanner, of the machine of some patterns:
                 \* what one character does to it, and what it has found at the end
  FoundIn(_, _), \* what a search for these patterns in a text finds
  BeginsKey(_)   \* PEM_KEY_BEGIN_BOUNDARY_PATTERN.search

Placeholder == <<"DOCUMENTED_SYNTHETIC_FIXTURE">>

\* In a diff "+", "-" and " " are characters as well, and the beginning of a
\* header stands for itself: its path or its line numbers.
NoPath == "none"
Ungoverned == "ungoverned"  \* what a header names that is not governed
MalformedHunk == "@@"
Signs == {"+", "-", " "}

ASSUME TextsAreRead == FileTexts \cup DiffTexts \subseteq Texts

ASSUME HeadersAssumption ==
  /\ LET headers == <<DiffHeaders, OldHeaders, NewHeaders, HunkHeaders>>
     IN  \A i, j \in 1..4 :
           /\ i # j => DOMAIN headers[i] \cap DOMAIN headers[j] = {}
           /\ DOMAIN headers[i] \cap (Signs \cup {MalformedHunk}) = {}
  /\ \A h \in DOMAIN OldHeaders : OldHeaders[h] # NoPath
  /\ \A h \in DOMAIN NewHeaders : NewHeaders[h] # NoPath
  /\ \A h \in DOMAIN HunkHeaders : HunkHeaders[h] \in Nat \X Nat

ASSUME PathsAssumption ==
  {NoPath, Ungoverned}
    \cap (PackerPaths \cup DOMAIN Retired \cup UNION {DOMAIN d : d \in Documents}) = {}

\* The first character of a line and what follows it; in a hunk, what looks
\* like a header is a removed line that begins with -- or an added one with ++.
Sign(c) == IF c \in DOMAIN OldHeaders THEN "-" ELSE IF c \in DOMAIN NewHeaders THEN "+" ELSE c
AfterSign(c) ==
  IF c \in DOMAIN OldHeaders THEN <<"-- ">>
  ELSE IF c \in DOMAIN NewHeaders THEN <<"++ ">> ELSE <<>>
WithoutSign(line) == IF line = <<>> THEN <<>> ELSE AfterSign(Head(line)) \o Tail(line)

\* What a line may be compared with or replaced by is made of characters.
ASSUME AlphabetAssumption == {"LF", "-- ", "++ ", Placeholder[1]} \subseteq Alphabet

VARIABLES
  documented,  \* the lines that may hold a synthetic secret
  scan,        \* the scan: of a file, or for keys, secrets and .npmrc in a diff
  current,     \* the content of the line so far and the scanners of that line
  total,       \* scan_chunks: the scanner of the masked text
  diff,        \* where the present line of a diff stands
  flags,       \* what the scan has found, when it has ended
  outcome      \* how far the scan has come, or how it has ended

inputs == <<documented, scan>>
scanVars == <<current, total, diff, flags>>
scanningVars == <<splitVars, inputs, scanVars, outcome>>

-----------------------------------------------------------------------------
(* filtered_scan_chunks: its arguments.                                    *)

OfDiff == scan # "file"
Redacting == scan \in {"secrets", "npmrc"}
DocumentedNow == IF scan = "npmrc" THEN <<>> ELSE documented
RetiredNow == IF scan \in {"keys", "secrets"} THEN Retired ELSE <<>>
MayBePacker(path) == ~OfDiff \/ (scan = "secrets" /\ path \in PackerPaths)

\* documented, removed_fixture_lines: the text at a line of a path.
IsLine(lines, path, number, content) ==
  path \in DOMAIN lines /\ number \in DOMAIN lines[path] /\ lines[path][number] = content

\* governed_diff_header_paths: the whole line, and only of paths that matter.
Governed ==
  DOMAIN DocumentedNow \cup DOMAIN RetiredNow \cup (IF scan = "secrets" THEN PackerPaths ELSE {})
HeaderPath(headers, line) ==
  IF Len(line) = 1 /\ headers[line[1]] \in Governed THEN headers[line[1]] ELSE Ungoverned

-----------------------------------------------------------------------------
(* filtered_scan_chunks: where a line of a diff stands.                    *)

DiffStart == [old |-> NoPath, new |-> NoPath, oldNumber |-> 0, newNumber |-> 0,
              inHunk |-> FALSE, section |-> NoPath]

\* removed_headers: only the exact header of a fixture starts its section.
SectionPath(line) ==
  IF Len(line) = 1 /\ DiffHeaders[line[1]] \in DOMAIN RetiredNow
  THEN DiffHeaders[line[1]] ELSE NoPath

BeginsWith(line, beginnings) == line # <<>> /\ line[1] \in beginnings

\* A hunk that cannot be read, or of no file although lines are documented.
BadHunk(d, line) ==
  \/ BeginsWith(line, {MalformedHunk})
  \/ /\ BeginsWith(line, DOMAIN HunkHeaders)
     /\ DocumentedNow # <<>> /\ d.old = NoPath /\ d.new = NoPath

\* Fault: a removed line that begins with -- is taken for a header.
AlwaysHeader(d) == TRUE
ExpectsHeader(d) == ~d.inHunk

IsContent(d, line) == d.inHunk /\ line # <<>> /\ Sign(line[1]) \in Signs

\* The state after a line.
AfterLine(d, line) ==
  IF BeginsWith(line, DOMAIN DiffHeaders)
  THEN [d EXCEPT !.old = NoPath, !.new = NoPath, !.inHunk = FALSE, !.section = SectionPath(line)]
  ELSE IF ExpectsHeader(d) /\ BeginsWith(line, DOMAIN OldHeaders)
  THEN [d EXCEPT !.old = HeaderPath(OldHeaders, line)]
  ELSE IF ExpectsHeader(d) /\ BeginsWith(line, DOMAIN NewHeaders)
  THEN [d EXCEPT !.new = HeaderPath(NewHeaders, line)]
  ELSE IF BeginsWith(line, DOMAIN HunkHeaders)
  THEN [d EXCEPT !.oldNumber = HunkHeaders[line[1]][1], !.newNumber = HunkHeaders[line[1]][2],
                 !.inHunk = TRUE]
  ELSE IF IsContent(d, line)
  THEN [d EXCEPT !.oldNumber = IF Sign(line[1]) = "+" THEN @ ELSE @ + 1,
                 !.newNumber = IF Sign(line[1]) = "-" THEN @ ELSE @ + 1]
  ELSE d

\* match_path, match_number, old_content.
Unplaced == [path |-> NoPath, number |-> 0, removed |-> FALSE]
PlaceOf(d, line) ==
  IF ~IsContent(d, line) THEN Unplaced
  ELSE [path |-> IF Sign(line[1]) = "+" \/ (Sign(line[1]) = " " /\ d.old = NoPath)
                 THEN d.new ELSE d.old,
        number |-> IF Sign(line[1]) = "+" \/ (Sign(line[1]) = " " /\ d.oldNumber = 0)
                   THEN d.newNumber ELSE d.oldNumber,
        removed |-> Sign(line[1]) = "-"]

-----------------------------------------------------------------------------
(* PatternScanner                                                          *)

\* feed: one character after the other.
feed(kind, s, t) ==
  LET after[n \in 0..Len(t)] == IF n = 0 THEN s ELSE advance(kind, after[n - 1], t[n])
  IN  after[Len(t)]

-----------------------------------------------------------------------------
(* filtered_scan_chunks: a line and what becomes of it.                    *)

NewLine ==
  [content |-> <<>>, scan |-> NewScanner, packer |-> NewScanner, embedded |-> NewScanner]

\* In a diff the first character of a line is not content.
WithFragment ==
  LET content == IF OfDiff /\ lineFile = <<>> THEN WithoutSign(Fragment) ELSE Fragment
  IN  [content |-> current.content \o content,
       scan |-> feed("content", current.scan, Fragment),
       packer |-> feed("packer", current.packer, content),
       embedded |-> feed("embedded", current.embedded, content)]

\* The digest of the line is the documented one; the beginning of a
\* private key is never masked.
DocumentedLine(place, content) ==
  /\ IsLine(DocumentedNow, place.path, place.number, content)
  /\ ~BeginsKey(content)

\* A removed line of a fixture that is being retired.
RetiredLine(place, section, content) ==
  /\ place.removed /\ place.path = section
  /\ IsLine(RetiredNow, place.path, place.number, content)

\* A removed secret outside the files with documented lines; for a key that is
\* not enough.
RemovedSecret(place, old, found) ==
  Redacting /\ place.removed /\ old \notin DOMAIN DocumentedNow /\ found \ {"pem"} # {}

\* A bare reference may be taken for a password, for nothing else.
PackerLine(place, last) ==
  /\ MayBePacker(place.path)
  /\ finish("packer", last.packer) # {}
  /\ finish("content", last.scan) \subseteq {"password"}
  /\ finish("embedded", last.embedded) = {}

Masked(place, d, last) ==
  \/ DocumentedLine(place, last.content)
  \/ RetiredLine(place, d.section, last.content)
  \/ RemovedSecret(place, d.old, finish("content", last.scan))
  \/ PackerLine(place, last)

-----------------------------------------------------------------------------
(* filtered_scan_chunks and scan_chunks: the loop.                         *)

\* How much a read returns.
Pieces ==
  LET left == Len(text) - fed IN
  IF OfDiff THEN {IF left < DiffPiece THEN left ELSE DiffPiece} ELSE 1..left

ReadChunk ==
  /\ outcome = "scanning"
  /\ \E n \in Pieces : ReadPiece(n)
  /\ UNCHANGED <<inputs, scanVars, outcome>>

KeepFragment ==
  /\ outcome = "scanning" /\ Continue
  /\ current' = WithFragment
  /\ UNCHANGED <<inputs, total, diff, flags, outcome>>

EndLine ==
  LET line == lineFile \o Fragment
      place == IF OfDiff THEN PlaceOf(diff, line)
               ELSE [path |-> Path, number |-> Len(complete) + 1, removed |-> FALSE]
      shown == IF Masked(place, diff, WithFragment) THEN Placeholder ELSE line
      bad == OfDiff /\ BadHunk(diff, line)
  IN  /\ outcome = "scanning" /\ (EndPending \/ EndAtBreak \/ EndUnterminated)
      /\ current' = NewLine
      /\ total' = IF bad THEN total ELSE feed("content", total, Append(shown, "LF"))
      /\ diff' = IF OfDiff THEN AfterLine(diff, line) ELSE diff
      /\ outcome' = IF bad THEN "refused" ELSE outcome
      /\ UNCHANGED <<inputs, flags>>

EndOfText ==
  /\ outcome = "scanning" /\ SplitEnded
  /\ flags' = finish("content", total)
  /\ outcome' = "scanned"
  /\ UNCHANGED <<splitVars, inputs, current, total, diff>>

-----------------------------------------------------------------------------
(* streaming_review_safe, and the scan of a file of the workspace.         *)

Secrets == {"pem", "password", "token"}

\* Fault: a diff is not scanned for keys before removed lines are masked.
NoKeysRefused == [s \in {"file", "keys", "secrets", "npmrc"} |->
  CASE s \in {"file", "secrets"} -> Secrets [] s = "keys" -> {} [] s = "npmrc" -> {"npmrc"}]
Forbidden == [s \in {"file", "keys", "secrets", "npmrc"} |->
  CASE s \in {"file", "secrets"} -> Secrets [] s = "keys" -> {"pem"} [] s = "npmrc" -> {"npmrc"}]

ChangedPaths == {DiffHeaders[text[i]] : i \in {j \in DOMAIN text : text[j] \in DOMAIN DiffHeaders}}
NextScan ==
  CASE scan = "keys" -> "secrets"
    [] scan = "secrets" /\ ChangedPaths \cap NpmrcPaths # {} -> "npmrc"
    [] OTHER -> scan

Refuse ==
  /\ outcome = "scanned" /\ flags \cap Forbidden[scan] # {}
  /\ outcome' = "refused"
  /\ UNCHANGED <<splitVars, inputs, scanVars>>

ScanAgain ==
  /\ outcome = "scanned" /\ flags \cap Forbidden[scan] = {} /\ NextScan # scan
  /\ StartOver
  /\ scan' = NextScan
  /\ current' = NewLine /\ total' = NewScanner /\ diff' = DiffStart /\ flags' = {}
  /\ outcome' = "scanning"
  /\ UNCHANGED documented

Accept ==
  /\ outcome = "scanned" /\ flags \cap Forbidden[scan] = {} /\ NextScan = scan
  /\ outcome' = "accepted"
  /\ UNCHANGED <<splitVars, inputs, scanVars>>

-----------------------------------------------------------------------------
ScanInit ==
  /\ \/ text \in FileTexts /\ scan = "file"
     \/ text \in DiffTexts /\ scan = "keys"
  /\ Unread
  /\ documented \in Documents
  /\ current = NewLine /\ total = NewScanner /\ diff = DiffStart
  /\ flags = {}
  /\ outcome = "scanning"

ScanNext ==
  \/ ReadChunk \/ KeepFragment \/ EndLine \/ EndOfText
  \/ Refuse \/ ScanAgain \/ Accept

Scanning == ScanInit /\ [][ScanNext]_scanningVars

-----------------------------------------------------------------------------
(* The lines of a text, looked at as a whole; LinesAreExact says that they *)
(* are complete when a scan has ended.                                     *)

\* The greatest of these numbers; 0 when there is none.
LastOf(numbers) == CHOOSE k \in {0} \cup numbers : \A l \in {0} \cup numbers : l <= k

SignOf(lines, n) == IF lines[n] = <<>> THEN "" ELSE Sign(lines[n][1])

SectionOf(lines, n) == LastOf({k \in 1..n : BeginsWith(lines[k], DOMAIN DiffHeaders)})
HunkOf(lines, n) == LastOf({k \in 1..n : BeginsWith(lines[k], DOMAIN HunkHeaders)})
InHunk(lines, n) == HunkOf(lines, n) > SectionOf(lines, n) /\ HunkOf(lines, n) < n

\* The headers of a section stand before its first hunk.
HeaderOf(lines, n, headers) ==
  LastOf({k \in (SectionOf(lines, n) + 1)..n :
            /\ BeginsWith(lines[k], DOMAIN headers)
            /\ HunkOf(lines, k) <= SectionOf(lines, n)})
PathIn(lines, n, headers) ==
  LET k == HeaderOf(lines, n, headers)
  IN  IF k = 0 THEN NoPath
      ELSE IF Len(lines[k]) > 1 THEN Ungoverned ELSE headers[lines[k][1]]
SectionPathOf(lines, n) ==
  IF SectionOf(lines, n) = 0 THEN NoPath ELSE SectionPath(lines[SectionOf(lines, n)])

\* Line n of a diff is a line of the old file, of the new file, or of both.
NumberIn(lines, n, side, signs) ==
  HunkHeaders[lines[HunkOf(lines, n)][1]][side]
    + Cardinality({k \in (HunkOf(lines, n) + 1)..(n - 1) : SignOf(lines, k) \in signs})
OldNumber(lines, n) == NumberIn(lines, n, 1, {"-", " "})
NewNumber(lines, n) == NumberIn(lines, n, 2, {"+", " "})

Added(lines, n) == InHunk(lines, n) /\ SignOf(lines, n) = "+"
Removed(lines, n) == InHunk(lines, n) /\ SignOf(lines, n) = "-"
Kept(lines, n) == InHunk(lines, n) /\ SignOf(lines, n) = " "

\* Where a line of the text is looked up; one that both files have, in the old
\* one unless only the new one is given.
NewPlace(lines, n) == <<PathIn(lines, n, NewHeaders), NewNumber(lines, n)>>
OldPlace(lines, n) == <<PathIn(lines, n, OldHeaders), OldNumber(lines, n)>>
KeptPlace(lines, n) ==
  <<IF OldPlace(lines, n)[1] = NoPath THEN NewPlace(lines, n)[1] ELSE OldPlace(lines, n)[1],
    IF OldPlace(lines, n)[2] = 0 THEN NewPlace(lines, n)[2] ELSE OldPlace(lines, n)[2]>>
Place(lines, n) ==
  IF ~OfDiff THEN <<Path, n>>
  ELSE IF Added(lines, n) THEN NewPlace(lines, n)
  ELSE IF Removed(lines, n) THEN OldPlace(lines, n)
  ELSE IF Kept(lines, n) THEN KeptPlace(lines, n)
  ELSE <<NoPath, 0>>
Content(lines, n) == IF OfDiff THEN WithoutSign(lines[n]) ELSE lines[n]
IsAmong(known, lines, n) ==
  IsLine(known, Place(lines, n)[1], Place(lines, n)[2], Content(lines, n))

\* A line that is documented word by word, and no beginning of a key.
IsDocumented(lines, n) == IsAmong(DocumentedNow, lines, n) /\ ~BeginsKey(Content(lines, n))

\* A line that a fixture loses by being retired, in a section of its own.
IsRetired(lines, n) ==
  /\ OfDiff /\ Removed(lines, n) /\ IsAmong(RetiredNow, lines, n)
  /\ SectionPathOf(lines, n) = Place(lines, n)[1]

\* A Packer reference in which nothing but the password pattern can be found.
IsReference(lines, n) ==
  /\ MayBePacker(Place(lines, n)[1])
  /\ FoundIn("packer", Content(lines, n)) # {}
  /\ FoundIn("content", lines[n]) \subseteq {"password"}
  /\ FoundIn("embedded", Content(lines, n)) = {}

\* A secret that a file without documented lines loses.
IsRedacted(lines, n) ==
  /\ Redacting /\ Removed(lines, n) /\ Place(lines, n)[1] \notin DOMAIN DocumentedNow
  /\ FoundIn("content", lines[n]) \ {"pem"} # {}

Exempt(lines, n) ==
  IsDocumented(lines, n) \/ IsRetired(lines, n) \/ IsReference(lines, n) \/ IsRedacted(lines, n)

\* Lines one after the other, each with a break.
Joined(lines) ==
  LET upTo[n \in 0..Len(lines)] ==
        IF n = 0 THEN <<>> ELSE upTo[n - 1] \o Append(lines[n], "LF")
  IN  upTo[Len(lines)]

ShownLines(lines) ==
  [n \in DOMAIN lines |-> IF Exempt(lines, n) THEN Placeholder ELSE lines[n]]

\* What a scan rests on: a machine that has read a whole text from its start has
\* found what a search would.
ScannersAreExact(texts) ==
  \A kind \in {"content", "packer", "embedded"} : \A t \in texts :
    finish(kind, feed(kind, NewScanner, t)) = FoundIn(kind, t)

\* What is found in a line is found in every text that has this line.
FoundWithinLines(files) ==
  \A lines \in files : \A n \in DOMAIN lines :
    FoundIn("content", lines[n]) \subseteq FoundIn("content", Joined(lines))

\* filtered_scan_chunks: a scan finds exactly what the patterns find in the
\* whole text with the exempt lines masked: nothing is lost at the end of a
\* piece, of a line or of a hunk, and nothing is found that is not there.
ScanIsExact ==
  outcome = "scanned" => flags = FoundIn("content", Joined(ShownLines(complete)))

\* No beginning or end of a key, but for lines that are documented or retired.
NoKeys(lines) ==
  \A n \in DOMAIN lines :
    "pem" \in FoundIn("content", lines[n]) =>
      \/ IsAmong(documented, lines, n) /\ ~BeginsKey(Content(lines, n))
      \/ IsAmong(Retired, lines, n) /\ Removed(lines, n)

\* No secret in a line that is added or kept, but for documented lines and bare
\* references.
NoSecrets(lines) ==
  \A n \in DOMAIN lines :
    FoundIn("content", lines[n]) \cap {"password", "token"} # {} =>
      \/ IsAmong(documented, lines, n)
      \/ Removed(lines, n)
      \/ Place(lines, n)[1] \in PackerPaths /\ FoundIn("content", lines[n]) \subseteq {"password"}

\* Nothing to authenticate with is added to an .npmrc file, documented or not.
NoNpmrcSecrets(lines) ==
  \A n \in DOMAIN lines : "npmrc" \in FoundIn("content", lines[n]) => Removed(lines, n)

\* The lines of a diff as Git writes them: only an LF ends one, and a CR before
\* it belongs to the break.
GitEnds ==
  {i \in 1..Len(text) : text[i] = "LF"}
    \cup {i \in {Len(text) + 1} : text # <<>> /\ text[Len(text)] # "LF"}
GitNumber(end) == Cardinality({e \in GitEnds : e <= end})
GitBefore(end) == LastOf({e \in GitEnds : e < end})
GitLine(end) == SubSeq(text, GitBefore(end) + 1, end - IF IsPair(end) THEN 2 ELSE 1)
GitLines ==
  [n \in 1..Cardinality(GitEnds) |-> GitLine(CHOOSE end \in GitEnds : GitNumber(end) = n)]

\* A break for split_text_fragments that is none for Git.
BareBreak == \E i \in Breaks : text[i] # "LF"

\* What a diff may show that is sent to a review.
IsClean(lines) ==
  /\ NoKeys(lines) /\ NoSecrets(lines)
  /\ ChangedPaths \cap NpmrcPaths # {} => NoNpmrcSecrets(lines)

\* streaming_review_safe: a diff that its three scans accept has no key
\* anywhere, no secret in a line it adds or keeps, and no authentication for an
\* .npmrc file, each with the exceptions its own scan makes and no others.  What
\* a diff adds, keeps and removes is said of Git's lines; a CR within one of
\* them is the one thing that makes the scan see other lines.
AcceptedDiffIsClean ==
  outcome = "accepted" /\ OfDiff /\ ~BareBreak => \A lines \in {GitLines} : IsClean(lines)

\* "Old sensitive lines removed by the patch are redacted": nothing but what the
\* patch removes is, whatever characters its lines have.
OnlyRemovedIsRedacted ==
  outcome = "accepted" /\ OfDiff => \A lines \in {GitLines} : IsClean(lines)

=============================================================================
