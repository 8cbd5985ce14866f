----------------------------- MODULE MCEntityQueries ----------------------------
(* An instance of EntityQueries for TLC.  Every expression has a text, and is *)
(* what the parser of QueryLanguage makes of it.                              *)
EXTENDS EntityQueries, QueryLanguage

CONSTANTS k1, k2, o1, o2

DigitSymbols == "0" :> 0 @@ "1" :> 1 @@ "2" :> 2
AddressTexts == <<"0", "x", "first">> :> o1 @@ <<"0", "x", "second">> :> o2
                @@ <<"0", "x", "0">> :> NoSender
KeyTexts == <<"0", "x", "one">> :> k1 @@ <<"0", "x", "two">> :> k2

(* The same is asked of every owner and of every key, so that they are symmetric. *)
TextExpressions ==
    <<Cond("String", <<"a">>, "Eq", <<"red">>),
      Cond("String", <<"a">>, "Ne", <<"red">>),
      Cond("Number", <<"a">>, "Ge", 2),
      Cond("Number", <<"a">>, "Ne", 1),
      Cond("Owner", OwnerName, "Eq", o1),
      Cond("Owner", OwnerName, "Eq", o2),
      Cond("Owner", OwnerName, "Eq", NoSender),
      Cond("String", OwnerName, "Ne", <<"0", "x", "first">>),
      Cond("Key", KeyName, "Eq", k1),
      Cond("Key", KeyName, "Eq", k2),
      Cond("Expiration", ExpirationName, "Eq", 2),
      Not(2), Not(7), Not(9), Not(10),
      And(2, 3), And(5, 4), And(6, 4), Or(12, 11), Not(19)>>

AisRed == <<"a", "=", Quote, "red", Quote>>
AisNotRed == <<"a", "!", "=", "red">>
High == <<"a", ">", "=", "2">>
IsNot1 == <<"a", "!", "=", "1">>
OfFirst == <<"$", "owner", "=", "0", "x", "first">>
OfSecond == <<"$", "owner", "=", "0", "x", "second">>
OfNobody == <<"$", "owner", "=", "0", "x", "0">>
NotOwner == <<"$", "owner", "!", "=", "0", "x", "first">>
IsOne == <<"$", "key", "=", "0", "x", "one">>
IsTwo == <<"$", "key", "=", "0", "x", "two">>
AtTwo == <<"$", "expiration", "=", "2">>

Neg(q) == <<"!", "(">> \o q \o <<")">>
Both(p, q) == p \o <<"&", "&">> \o q
Either(p, q) == p \o <<"|", "|">> \o q

Texts ==
    <<AisRed, AisNotRed, High, IsNot1, OfFirst, OfSecond, OfNobody, NotOwner, IsOne, IsTwo, AtTwo,
      Neg(AisNotRed), Neg(OfNobody), Neg(IsOne), Neg(IsTwo),
      Both(AisNotRed, High), Both(OfFirst, IsNot1), Both(OfSecond, IsNot1),
      Either(Neg(AisNotRed), AtTwo), Neg(Either(Neg(AisNotRed), AtTwo))>>

(* An expression with its parts instead of their places. *)
Tree[i \in DOMAIN TextExpressions] ==
    LET e == TextExpressions[i]
    IN CASE e.kind = "Condition" -> e
         [] e.kind = "And" -> And(Tree[e.left], Tree[e.right])
         [] e.kind = "Or" -> Or(Tree[e.left], Tree[e.right])
         [] e.kind = "Not" -> Not(Tree[e.of])

ASSUME TextsAreParsed ==
    /\ DOMAIN Texts = DOMAIN TextExpressions
    /\ \A i \in DOMAIN Texts : Parse(Texts[i]).ok /\ Parse(Texts[i]).expr = Tree[i]

ASSUME EveryConditionAsked ==
    \A on \in ConditionKinds :
        \E i \in DOMAIN TextExpressions :
            TextExpressions[i].kind = "Condition" /\ TextExpressions[i].on = on

Tag == <<"String", <<"a">>>>
Rank == <<"Number", <<"a">>>>
AnnotationNames == {Tag, Rank}

Note(n, v) == [name |-> n, value |-> v]
Lists == {<<>>,
          <<Note(Tag, <<"blue">>), Note(Tag, <<"red">>), Note(Rank, 2)>>}

Asked == TextExpressions      \* evaluated once

StoreSymmetry == Permutations(Keys) \union Permutations(Owners)

(* The last block has its housekeeping and no transactions. *)
LastBlockEmpty == block = MaxBlock => sender = NoSender
================================================================================
