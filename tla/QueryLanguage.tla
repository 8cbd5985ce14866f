------------------------------ MODULE QueryLanguage -----------------------------
(***************************************************************************)
(* The query language of arkiv-mock (query_parser.rs): text to tokens,     *)
(* tokens to an expression.                                                *)
(*                                                                         *)
(* A text is a sequence of symbols: a character, or a word that stands for *)
(* a run of letters and digits.  The parser reads as far as an expression  *)
(* goes and does not look at the tokens behind it.                         *)
(***************************************************************************)
EXTENDS Integers, Sequences, FiniteSets, TLC

LOCAL INSTANCE SequencesExt

CONSTANTS
    Digits,         \* a function from the digit symbols to 0 .. 9
    Letters,        \* symbols a name can start with, "x" among them
    OtherLetters,   \* letters outside ASCII: only inside of a name
    MaxNumber,      \* the largest u64
    AddressOf,      \* the addresses that texts spell
    EntityKeyOf     \* the entity keys that texts spell

ASSUME DigitsAssumption == Digits \in [DOMAIN Digits -> 0 .. 9] /\ MaxNumber \in Nat

Spaces == {" "}
Quote == "\""
Escape == "\\"
WordSymbols == DOMAIN Digits \union Letters \union OtherLetters

--------------------------------------------------------------------------------
(* Tokens *)

Tok(type) == [type |-> type]
Ident(name) == [type |-> "Ident", text |-> name]
Text(content) == [type |-> "String", text |-> content]
Number(n) == [type |-> "Number", value |-> n]
Invalid == Tok("Invalid")

Metas == <<"owner">> :> Tok("Owner") @@ <<"key">> :> Tok("Key")
         @@ <<"expiration">> :> Tok("Expiration")

(* A symbol with a meaning of its own, and what it becomes before another. *)
Alone == "(" :> Tok("LParen") @@ ")" :> Tok("RParen") @@ "=" :> Tok("Eq")
         @@ "!" :> Tok("Not") @@ "<" :> Tok("Lt") @@ ">" :> Tok("Gt")
Paired == <<"!", "=">> :> Tok("Ne") @@ <<"<", "=">> :> Tok("Le")
          @@ <<">", "=">> :> Tok("Ge") @@ <<"&", "&">> :> Tok("And")
          @@ <<"|", "|">> :> Tok("Or")

(* What is read at a position: a token and where the next one starts. *)
Taken(token, next) == [token |-> token, next |-> next]

(* The first position from i on where no symbol of S stands. *)
EndOf(text, i, S) ==
    LET stop == SelectInSubSeq(text, i, Len(text), LAMBDA c : c \notin S)
    IN IF stop = 0 THEN Len(text) + 1 ELSE stop

DigitsValue(ds) == FoldLeft(LAMBDA v, d : 10 * v + Digits[d], 0, ds)

(* Mutant: an escape is a symbol like any other. *)
ReadStringRaw(text, i, content) ==
    LET end == EndOf(text, i, ToSet(text) \ {Quote})
    IN Taken(Text(SubSeq(text, i, end - 1)), end + 1)

(* A closing quote may be missing; an escape at the end is refused. *)
RECURSIVE ReadString(_, _, _)
ReadString(text, i, content) ==
    CASE i > Len(text) -> Taken(Text(content), i)
      [] i <= Len(text) /\ text[i] = Quote -> Taken(Text(content), i + 1)
      [] i < Len(text) /\ text[i] = Escape ->
            ReadString(text, i + 2, Append(content, text[i + 1]))
      [] i = Len(text) /\ text[i] = Escape -> Taken(Invalid, i)
      [] OTHER -> ReadString(text, i + 1, Append(content, text[i]))

(* The name that starts with the symbol at first and goes on at i. *)
ReadIdentifier(text, first, i) ==
    LET next == EndOf(text, i, WordSymbols)
    IN Taken(Ident(<<text[first]>> \o SubSeq(text, i, next - 1)), next)

(* What starts with 0x is a name.  A number that is too large is lost but for *)
(* its first digit, which becomes a name with what follows the number.        *)
ReadNumber(text, i) ==
    LET next == EndOf(text, i, DOMAIN Digits)
        value == DigitsValue(SubSeq(text, i, next - 1))
    IN CASE Digits[text[i]] = 0 /\ i < Len(text) /\ text[i + 1] = "x" ->
                ReadIdentifier(text, i, i + 1)
         [] value > MaxNumber -> ReadIdentifier(text, i, next)
         [] OTHER -> Taken(Number(value), next)

ReadMeta(text, i) ==
    LET next == EndOf(text, i, WordSymbols)
        name == SubSeq(text, i, next - 1)
    IN Taken(IF name \in DOMAIN Metas THEN Metas[name] ELSE Invalid, next)

(* A token that is not a pair of symbols. *)
ReadSingle(text, i) ==
    LET c == text[i]
    IN CASE c = Quote -> ReadString(text, i + 1, <<>>)
         [] c \in DOMAIN Digits -> ReadNumber(text, i)
         [] c = "$" -> ReadMeta(text, i + 1)
         [] c \in Letters -> ReadIdentifier(text, i, i + 1)
         [] c \in DOMAIN Alone -> Taken(Alone[c], i + 1)
         [] OTHER -> Taken(Invalid, i + 1)

Read(text, i) ==
    IF i < Len(text) /\ SubSeq(text, i, i + 1) \in DOMAIN Paired
    THEN Taken(Paired[SubSeq(text, i, i + 1)], i + 2)
    ELSE ReadSingle(text, i)

(* tokenize; a text with an invalid token has no tokens. *)
RECURSIVE TokensFrom(_, _)
TokensFrom(text, i) ==
    IF i > Len(text) THEN <<>>
    ELSE IF text[i] \in Spaces THEN TokensFrom(text, i + 1)
    ELSE LET r == Read(text, i)
         IN IF r.token = Invalid THEN <<Invalid>>
            ELSE <<r.token>> \o TokensFrom(text, r.next)

Tokenize(text) == TokensFrom(text, 1)
Valid(tokens) == ~Contains(tokens, Invalid)

--------------------------------------------------------------------------------
(* Conditions *)

OwnerName == <<"$", "owner">>
KeyName == <<"$", "key">>
ExpirationName == <<"$", "expiration">>

None == [kind |-> "None"]
Cond(on, name, op, value) ==
    [kind |-> "Condition", on |-> on, name |-> name, op |-> op, value |-> value]

(* A quoted value: create_condition_for_string_value. *)
TextCondition(name, op, value) ==
    CASE name = ExpirationName -> None
      [] name = OwnerName /\ op = "Eq" ->
            IF value \in DOMAIN AddressOf
            THEN Cond("Owner", name, op, AddressOf[value]) ELSE None
      [] name = KeyName /\ op = "Eq" ->
            IF value \in DOMAIN EntityKeyOf
            THEN Cond("Key", name, op, EntityKeyOf[value]) ELSE None
      [] name # ExpirationName /\ ~(name \in {OwnerName, KeyName} /\ op = "Eq") ->
            IF op \in {"Eq", "Ne"} THEN Cond("String", name, op, value) ELSE None

(* A name as the value means its text. *)
IdentifierCondition(name, op, value) == TextCondition(name, op, value)

NumberCondition(name, op, value) ==
    CASE name \in {OwnerName, KeyName} -> None
      [] name = ExpirationName /\ op = "Eq" -> Cond("Expiration", name, op, value)
      [] OTHER -> Cond("Number", name, op, value)

NameOf(token) ==
    CASE token.type = "Ident" -> token.text
      [] token.type = "Owner" -> OwnerName
      [] token.type = "Key" -> KeyName
      [] token.type = "Expiration" -> ExpirationName
      [] OTHER -> <<>>

Comparisons == {"Eq", "Ne", "Lt", "Gt", "Le", "Ge"}

ValueCondition(name, op, token) ==
    CASE token.type = "String" -> TextCondition(name, op, token.text)
      [] token.type = "Ident" -> IdentifierCondition(name, op, token.text)
      [] token.type = "Number" -> NumberCondition(name, op, token.value)
      [] OTHER -> None

(* The condition that the tokens p .. p + 2 make, or None. *)
ConditionAt(tokens, p) ==
    IF /\ p + 2 <= Len(tokens)
       /\ NameOf(tokens[p]) # <<>>
       /\ tokens[p + 1].type \in Comparisons
    THEN ValueCondition(NameOf(tokens[p]), tokens[p + 1].type, tokens[p + 2])
    ELSE None

--------------------------------------------------------------------------------
(* The parser: an expression and the position behind it. *)

And(l, r) == [kind |-> "And", left |-> l, right |-> r]
Or(l, r) == [kind |-> "Or", left |-> l, right |-> r]
Not(e) == [kind |-> "Not", of |-> e]

Parsed(expr, next) == [ok |-> TRUE, expr |-> expr, next |-> next]
Failed == [ok |-> FALSE, expr |-> None, next |-> 0]

TypeAt(tokens, p) == IF p <= Len(tokens) THEN tokens[p].type ELSE "End"

ParseCondition(tokens, p) ==
    LET c == ConditionAt(tokens, p)
    IN IF c = None THEN Failed ELSE Parsed(c, p + 3)

RECURSIVE ParseOr(_, _), OrMore(_, _), ParseAnd(_, _), AndMore(_, _), ParsePrimary(_, _)

ParsePrimary(tokens, p) ==
    CASE TypeAt(tokens, p) = "Not" ->
            LET e == ParsePrimary(tokens, p + 1)
            IN IF e.ok THEN Parsed(Not(e.expr), e.next) ELSE Failed
      [] TypeAt(tokens, p) = "LParen" ->
            LET e == ParseOr(tokens, p + 1)
            IN IF e.ok /\ TypeAt(tokens, e.next) = "RParen"
               THEN Parsed(e.expr, e.next + 1) ELSE Failed
      [] OTHER -> ParseCondition(tokens, p)

(* Mutant: one && at most. *)
AndOnce(tokens, left) ==
    IF ~left.ok \/ TypeAt(tokens, left.next) # "And" THEN left
    ELSE LET right == ParsePrimary(tokens, left.next + 1)
         IN IF right.ok THEN Parsed(And(left.expr, right.expr), right.next) ELSE Failed

AndMore(tokens, left) ==
    IF ~left.ok \/ TypeAt(tokens, left.next) # "And" THEN left
    ELSE LET right == ParsePrimary(tokens, left.next + 1)
         IN IF right.ok
            THEN AndMore(tokens, Parsed(And(left.expr, right.expr), right.next))
            ELSE Failed

ParseAnd(tokens, p) == AndMore(tokens, ParsePrimary(tokens, p))

OrMore(tokens, left) ==
    IF ~left.ok \/ TypeAt(tokens, left.next) # "Or" THEN left
    ELSE LET right == ParseAnd(tokens, left.next + 1)
         IN IF right.ok
            THEN OrMore(tokens, Parsed(Or(left.expr, right.expr), right.next))
            ELSE Failed

ParseOr(tokens, p) == OrMore(tokens, ParseAnd(tokens, p))

(* parse_query: what follows the expression is not looked at. *)
Parse(text) ==
    IF Valid(Tokenize(text)) THEN ParseOr(Tokenize(text), 1) ELSE Failed

--------------------------------------------------------------------------------
(* The grammar, as a reference: the expressions that all of the tokens make.  *)
(*     Or  ::= Or "||" And | And                                             *)
(*     And ::= And "&&" Primary | Primary                                    *)
(*     Primary ::= "!" Primary | "(" Or ")" | condition                      *)

Before(tokens, i) == SubSeq(tokens, 1, i - 1)
Behind(tokens, i) == SubSeq(tokens, i + 1, Len(tokens))
Splits(tokens, type) == {i \in DOMAIN tokens : tokens[i].type = type}

RECURSIVE OrTrees(_), AndTrees(_), PrimaryTrees(_)

PrimaryTrees(tokens) ==
    LET n == Len(tokens)
    IN CASE TypeAt(tokens, 1) = "Not" -> {Not(e) : e \in PrimaryTrees(Behind(tokens, 1))}
         [] TypeAt(tokens, 1) = "LParen" ->
                IF n > 2 /\ tokens[n].type = "RParen"
                THEN OrTrees(SubSeq(tokens, 2, n - 1)) ELSE {}
         [] OTHER -> IF n = 3 THEN {ConditionAt(tokens, 1)} \ {None} ELSE {}

AndTrees(tokens) ==
    PrimaryTrees(tokens) \union
    UNION {{And(l, r) : l \in AndTrees(Before(tokens, i)), r \in PrimaryTrees(Behind(tokens, i))}
           : i \in Splits(tokens, "And")}

OrTrees(tokens) ==
    AndTrees(tokens) \union
    UNION {{Or(l, r) : l \in OrTrees(Before(tokens, i)), r \in AndTrees(Behind(tokens, i))}
           : i \in Splits(tokens, "Or")}
================================================================================
