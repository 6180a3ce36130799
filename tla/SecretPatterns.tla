---------------------------- MODULE SecretPatterns ----------------------------
(***************************************************************************)
(* scripts/lit-push-ready.py: the patterns of the secret scan, and the     *)
(* machines that are compiled from them.                                   *)
(***************************************************************************)
EXTENDS StreamingPatterns

\* "p" and "t" are letters, a secret's name and a token's prefix; "=" stands
\* for punctuation.
Characters == {"p", "t", "=", "CR", "LF"}
Space == In({"CR", "LF"})
Letters == In({"p", "t"})
Equals == In({"="})

\* SECRET_CONTENT_PATTERNS and NPMRC_AUTH_PATTERN: each construct they use, and
\* how they relate, over a small alphabet and with small counts.
PEMBoundary(first) ==
  <<In(first), Repeat(0, 1, <<Repeat(1, MAXREPEAT, <<In({"t"})>>), Equals>>), Equals>>
PEM == PEMBoundary({"=", "p"})  \* "=" stands for BEGIN, "p" for END
PEMBegin == PEMBoundary({"="})
PasswordAssignment ==
  <<In({"p"}), Repeat(0, MAXREPEAT, <<Space>>), Equals, Repeat(0, 1, <<In({"t"})>>),
    Repeat(2, MAXREPEAT, <<In({"p"})>>)>>
TokenBody == <<In({"t"}), Repeat(2, MAXREPEAT, <<Letters>>)>>
Token == <<At("boundary")>> \o TokenBody \o <<At("boundary")>>
NpmrcAuth ==
  <<Branch(<<<<At("line beginning")>>, <<In({"=", "+"})>>>>), Repeat(0, MAXREPEAT, <<Space>>),
    In({"t"}), Repeat(0, MAXREPEAT, <<Space>>), Equals>>

ContentPatterns ==
  <<[name |-> "pem", tokens |-> PEM],
    [name |-> "password", tokens |-> PasswordAssignment],
    [name |-> "token", tokens |-> Token],
    [name |-> "npmrc", tokens |-> NpmrcAuth]>>

\* PACKER_VARIABLE_REFERENCE_LINE, a whole line, and the tokens without \b.
PackerReference ==
  <<At("beginning"), In({"p"}), Equals, Repeat(1, MAXREPEAT, <<Letters>>), At("end")>>
PackerPatterns == <<[name |-> "reference", tokens |-> PackerReference]>>
EmbeddedPatterns == <<[name |-> "token", tokens |-> TokenBody]>>

Patterns ==
  [content |-> ContentPatterns, packer |-> PackerPatterns, embedded |-> EmbeddedPatterns]
Machines == [kind \in DOMAIN Patterns |-> Machine(Patterns[kind])]

=============================================================================
