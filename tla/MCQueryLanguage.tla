----------------------------- MODULE MCQueryLanguage ----------------------------
(***************************************************************************)
(* Texts for the query language: tokens written one after another, or any  *)
(* symbols whatever.                                                       *)
(***************************************************************************)
EXTENDS QueryLanguage

LOCAL INSTANCE SequencesExt

CONSTANTS
    MaxPieces,      \* tokens or conditions in a text
    MaxSymbols      \* symbols in a text of any symbols

VARIABLES
    style,      \* tight: spaces only where words would run together
    typed,      \* the tokens written
    pieces,     \* how many pieces the text is made of
    text

vars == <<style, typed, pieces, text>>

DigitSymbols == "0" :> 0 @@ "1" :> 1 @@ "7" :> 7
AddressTexts == <<"0", "x", "addr">> :> "owner1"
KeyTexts == <<"0", "x", "hash">> :> "entity1"

Symbols == DOMAIN DigitSymbols \union {"a", "x", "owner"} \union OtherLetters
           \union {" ", "(", ")", "=", "!", "<", ">", "&", "|", "$", Quote, Escape, "#"}

Name == Ident(<<"a">>)
Conditions ==
    {<<Name, Tok("Eq"), Number(1)>>,
     <<Name, Tok("Ne"), Text(<<"a", Quote>>)>>,
     <<Tok("Owner"), Tok("Eq"), Ident(<<"0", "x", "addr">>)>>}
Pieces == Conditions \union {<<Tok(t)>> : t \in {"LParen", "RParen", "Not", "And", "Or", "Gt"}}

Spelling == "LParen" :> <<"(">> @@ "RParen" :> <<")">> @@ "Not" :> <<"!">> @@ "And" :> <<"&", "&">>
            @@ "Or" :> <<"|", "|">> @@ "Eq" :> <<"=">> @@ "Ne" :> <<"!", "=">> @@ "Lt" :> <<"<">>
            @@ "Gt" :> <<">">> @@ "Le" :> <<"<", "=">> @@ "Ge" :> <<">", "=">>
            @@ "Owner" :> <<"$", "owner">> @@ "Key" :> <<"$", "key">>
            @@ "Expiration" :> <<"$", "expiration">>

Escaped(content) ==
    FlattenSeq([i \in DOMAIN content |->
        IF content[i] \in {Quote, Escape} THEN <<Escape, content[i]>> ELSE <<content[i]>>])

NumberTexts == 1 :> <<"1">> @@ 7 :> <<"7">> @@ 0 :> <<"0">> @@ 10 :> <<"1", "0">>
               @@ 11 :> <<"1", "1">> @@ 17 :> <<"1", "7">>

Spelled(t) ==
    CASE t.type = "Ident" -> t.text
      [] t.type = "String" -> <<Quote>> \o Escaped(t.text) \o <<Quote>>
      [] t.type = "Number" -> NumberTexts[t.value]
      [] OTHER -> Spelling[t.type]

Wordy == {"Ident", "Number", "Owner", "Key", "Expiration"}

(* Two tokens that would be read as others without a space between them. *)
Merge(t, u) ==
    \/ t.type \in Wordy /\ u.type \in {"Ident", "Number"}
    \/ t.type \in {"Not", "Lt", "Gt"} /\ u.type = "Eq"

Gap(t, u) == IF style = "loose" \/ Merge(t, u) THEN <<" ">> ELSE <<>>

RECURSIVE Joined(_)
Joined(tokens) ==
    IF Len(tokens) <= 1 THEN FlattenSeq([i \in DOMAIN tokens |-> Spelled(tokens[i])])
    ELSE Spelled(tokens[1]) \o Gap(tokens[1], tokens[2]) \o Joined(Tail(tokens))

Init ==
    /\ style \in {"tight", "loose", "any"}
    /\ typed = <<>>
    /\ pieces = 0
    /\ text = <<>>

Write(piece) ==
    /\ style # "any"
    /\ pieces < MaxPieces
    /\ pieces' = pieces + 1
    /\ typed' = typed \o piece
    /\ text' = Joined(typed')
    /\ UNCHANGED style

WriteSymbol(c) ==
    /\ style = "any"
    /\ pieces < MaxSymbols
    /\ pieces' = pieces + 1
    /\ text' = Append(text, c)
    /\ UNCHANGED <<style, typed>>

Next ==
    \/ \E p \in Pieces : Write(p)
    \/ \E c \in Symbols : WriteSymbol(c)

Spec == Init /\ [][Next]_vars

--------------------------------------------------------------------------------
TooLarge ==
    \E i \in DOMAIN text : text[i] \in DOMAIN Digits /\ i < Len(text) /\
        DigitsValue(SubSeq(text, i, EndOf(text, i, DOMAIN Digits) - 1)) > MaxNumber

(* Tokens that are written are read as the same, with or without spaces where *)
(* none are needed, and so are those that were read from any text: no symbol  *)
(* is lost, read twice or read as another, except in a number too large.      *)
ReadsBack ==
    LET tokens == Tokenize(text)
    IN  /\ style # "any" => tokens = typed
        /\ Valid(tokens) /\ ~TooLarge => Tokenize(Joined(tokens)) = tokens

(* The parser accepts exactly the texts that begin with an expression of the  *)
(* grammar which no operator follows, and reads the longest one, with the     *)
(* precedence and the grouping of the grammar.                                *)
ParsesGrammar ==
    LET tokens == Tokenize(text)
        lengths == {n \in DOMAIN tokens : OrTrees(SubSeq(tokens, 1, n)) # {}}
        result == Parse(text)
    IN  Valid(tokens) =>
        /\ result.ok <=>
            \E n \in lengths : /\ \A m \in lengths : m <= n
                               /\ TypeAt(tokens, n + 1) \notin {"And", "Or"}
        /\ result.ok =>
            /\ \A m \in lengths : m <= result.next - 1
            /\ OrTrees(SubSeq(tokens, 1, result.next - 1)) = {result.expr}
================================================================================
