--------------------------- MODULE StreamingPatterns ---------------------------
(***************************************************************************)
(* scripts/lit-push-ready.py: StreamingPatterns and PatternScanner.        *)
(* Regular expressions are compiled to a finite-state machine that reads a *)
(* text character by character and keeps states only.  The reference       *)
(* definition of a search, over a whole text, stands beside it.            *)
(***************************************************************************)
EXTENDS Integers, SequencesExt

CONSTANT WordCharacters  \* what isalnum() or "_" holds of

None == "none"  \* no character: before the text or after it

\* A parsed pattern is a sequence of these; LITERAL is a class of one character
\* and SUBPATTERN a branch of one body.
In(class) == [op |-> "in", class |-> class]
At(where) == [op |-> "at", where |-> where]
Branch(bodies) == [op |-> "branch", bodies |-> bodies]
Repeat(minimum, maximum, body) ==
  [op |-> "repeat", minimum |-> minimum, maximum |-> maximum, body |-> body]

MAXREPEAT == -1

-----------------------------------------------------------------------------
(* StreamingPatterns.__init__: the machine.                                *)

NewState(m) == [m EXCEPT !.size = @ + 1]
Edge(m, from, kind, label, to) ==
  [m EXCEPT !.edges = @ \cup {[from |-> from, kind |-> kind, label |-> label, to |-> to]}]
Epsilon(m, from, to) == Edge(m, from, "epsilon", {}, to)

\* A machine under construction and the state it has come to.
Cursor(m, at) == [at |-> at, m |-> m]
LeadTo(c, to) == Epsilon(c.m, c.at, to)

RECURSIVE Build(_, _)

\* One more body, entered from the cursor.
LeadInto(c, built) == Cursor(Epsilon(built.m, c.at, built.first), built.last)
Enter(c, body) == LeadInto(c, Build(c.m, body))

Times(n, Op(_), c) == FoldLeft(LAMBDA d, i : Op(d), c, [i \in 1..n |-> i])

\* A loop or the optional copies, after the least number of copies.
RepeatsAfter(copies, end, token) ==
  LET Skip(d) == Cursor(LeadTo(d, end), d.at)
      Optional(d) == Enter(Skip(d), token.body)
  IN  IF token.maximum = MAXREPEAT
      THEN LeadTo(Optional(copies), copies.at)
      ELSE LeadTo(Times(token.maximum - token.minimum, Optional, copies), end)
Repeats(c, end, token) ==
  RepeatsAfter(Times(token.minimum, LAMBDA d : Enter(d, token.body), c), end, token)

AddToken(c, token) ==
  LET m == NewState(c.m)
      end == m.size
      Alternative(n, body) == LeadTo(Enter(Cursor(n, c.at), body), end)
  IN  Cursor(CASE token.op = "in" -> Edge(m, c.at, "char", token.class, end)
               [] token.op = "at" -> Edge(m, c.at, "assert", {token.where}, end)
               [] token.op = "branch" -> FoldLeft(Alternative, m, token.bodies)
               [] token.op = "repeat" -> Repeats(Cursor(m, c.at), end, token),
             end)

Built(first, c) == [first |-> first, last |-> c.at, m |-> c.m]
Build(m, tokens) ==
  LET first == NewState(m)
  IN  Built(first.size, FoldLeft(AddToken, Cursor(first, first.size), tokens))

Named(built, name) ==
  [built.m EXCEPT !.starts = @ \cup {built.first}, !.accepts = @ \cup {<<built.last, name>>}]
AddPattern(m, pattern) == Named(Build(m, pattern.tokens), pattern.name)

\* The machine of a sequence of named patterns.  Each pattern has a range of
\* states of its own: they are disjoint, as with one count for all of them.
MaxStates == 100  \* bound: states of a pattern
NothingFrom(state) == [size |-> state, edges |-> {}, starts |-> {}, accepts |-> {}]
Union(parts) ==
  [edges |-> UNION {p.edges : p \in parts}, starts |-> UNION {p.starts : p \in parts},
   accepts |-> UNION {p.accepts : p \in parts}]
Machine(patterns) ==
  Union({AddPattern(NothingFrom(MaxStates * k), patterns[k]) : k \in DOMAIN patterns})

-----------------------------------------------------------------------------
(* _step and PatternScanner.                                               *)

Word(c) == c \in WordCharacters

Holds(assertion, previous, character, beginning) ==
  CASE assertion = "boundary" -> Word(previous) # Word(character)
    [] assertion = "line beginning" -> beginning \/ previous = "LF"
    [] assertion = "beginning" -> beginning
    [] assertion = "end" -> character = None

RECURSIVE Closure(_, _, _, _)
Closure(m, states, s, character) ==
  LET Passed(e) == \/ e.kind = "epsilon"
                   \/ /\ e.kind = "assert"
                      /\ \A a \in e.label : Holds(a, s.previous, character, s.beginning)
      more == {e.to : e \in {f \in m.edges : f.from \in states /\ Passed(f)}}
  IN  IF more \subseteq states THEN states ELSE Closure(m, states \cup more, s, character)

\* A search starts anywhere.  Fault: only where the last one has ended.
StartsWhenIdle(m, s) == IF s.active = {} THEN m.starts ELSE s.active
Starts(m, s) == s.active \cup m.starts

Matches(m, states) == {a[2] : a \in {b \in m.accepts : b[1] \in states}}

scanner == [active |-> {}, previous |-> None, beginning |-> TRUE, matches |-> {}]

FeedCharacter(m, s, character) ==
  LET states == Closure(m, Starts(m, s), s, character)
  IN  [active |-> {e.to : e \in {f \in m.edges : /\ f.from \in states /\ f.kind = "char"
                                                 /\ character \in f.label}},
       previous |-> character,
       beginning |-> FALSE,
       matches |-> s.matches \cup Matches(m, states)]

\* The position after the last character counts as well.
Finish(m, s) == s.matches \cup Matches(m, Closure(m, Starts(m, s), s, None))

-----------------------------------------------------------------------------
(* The reference: what a search for a pattern in a whole text means.       *)

HoldsAt(text, i, assertion) ==
  LET before == i > 0 /\ Word(text[i])
      after == i < Len(text) /\ Word(text[i + 1])
  IN  CASE assertion = "boundary" -> before # after
        [] assertion = "line beginning" -> i = 0 \/ text[i] = "LF"
        [] assertion = "beginning" -> i = 0
        [] assertion = "end" -> i = Len(text)

RECURSIVE EndsAfter(_, _, _), EndsTimes(_, _, _, _)

EndsAfterToken(text, i, token) ==
  CASE token.op = "in" ->
         IF i < Len(text) /\ text[i + 1] \in token.class THEN {i + 1} ELSE {}
    [] token.op = "at" -> IF HoldsAt(text, i, token.where) THEN {i} ELSE {}
    [] token.op = "branch" ->
         UNION {EndsAfter(text, i, token.bodies[k]) : k \in DOMAIN token.bodies}
    [] token.op = "repeat" ->
         UNION {EndsTimes(text, {i}, token.body, n) :
                  n \in token.minimum..(IF token.maximum = MAXREPEAT
                                        THEN token.minimum + Len(text) ELSE token.maximum)}

EndsTimes(text, from, body, n) ==
  IF n = 0 \/ from = {} THEN from
  ELSE EndsTimes(text, UNION {EndsAfter(text, i, body) : i \in from}, body, n - 1)

\* Where a match of the tokens from i on can end.
EndsAfter(text, i, tokens) ==
  IF tokens = <<>> THEN {i}
  ELSE UNION {EndsAfter(text, j, Tail(tokens)) : j \in EndsAfterToken(text, i, Head(tokens))}

Search(text, tokens) == \E i \in 0..Len(text) : EndsAfter(text, i, tokens) # {}

\* The names of the patterns found in a text.
Found(text, patterns) ==
  {patterns[k].name : k \in {j \in DOMAIN patterns : Search(text, patterns[j].tokens)}}

=============================================================================
