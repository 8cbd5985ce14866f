------------------------------ MODULE EntityQueries -----------------------------
(***************************************************************************)
(* How arkiv-mock answers queries (entity_db.rs): a parsed query is        *)
(* evaluated over the indices of EntityStore, under one read lock, and so  *)
(* between two operations of the block that is being made.                 *)
(*                                                                         *)
(* The indices are by name of an annotation, not by value: a condition     *)
(* takes its candidates from an index and looks at each entity.  An answer *)
(* is a list of keys in no particular order: how often each key is in it.  *)
(***************************************************************************)
EXTENDS EntityStore, Sequences

CONSTANT Expressions
    \* a sequence: what queries are parsed to (QueryLanguage), after its parts, which
    \* are named by their places

PartsOf(e) ==
    CASE e.kind = "Condition" -> {}
      [] e.kind \in {"And", "Or"} -> {e.left, e.right}
      [] e.kind = "Not" -> {e.of}

ConditionKinds == {"String", "Number", "Owner", "Key", "Expiration"}

ASSUME ExpressionsAssumption ==
    /\ DOMAIN Expressions = 1 .. Len(Expressions)
    /\ Len(Expressions) \in Nat
    /\ \A i \in DOMAIN Expressions :
        /\ Expressions[i].kind \in {"Condition", "And", "Or", "Not"}
        /\ Expressions[i].kind = "Condition" => Expressions[i].on \in ConditionKinds
        /\ PartsOf(Expressions[i]) \subseteq 1 .. i - 1

(* Strings and numbers have an index each. *)
ASSUME NamesAssumption == \A n \in Names : n[1] \in {"String", "Number"}

IndexOf(c) == <<c.on, c.name>>

(* The first annotation of a name decides, whatever others there are. *)
First(list, n) ==
    list[CHOOSE i \in DOMAIN list : /\ list[i].name = n
                                    /\ \A j \in 1 .. i - 1 : list[j].name # n].value

Compare(op, v, w) ==
    CASE op = "Eq" -> v = w
      [] op = "Ne" -> v # w
      [] op = "Lt" -> v < w
      [] op = "Gt" -> v > w
      [] op = "Le" -> v <= w
      [] op = "Ge" -> v >= w

(* Mutant: the last annotation decides. *)
Last(list, n) ==
    list[CHOOSE i \in DOMAIN list : /\ list[i].name = n
                                    /\ \A j \in i + 1 .. Len(list) : list[j].name # n].value

MatchesLastAnnotation(list, c) ==
    IF Carried(list, IndexOf(c)) = 0
    THEN c.op = "Ne"
    ELSE Compare(c.op, Last(list, IndexOf(c)), c.value)

(* matches_condition; an entity without the annotation differs from any value. *)
MatchesAnnotation(list, c) ==
    IF Carried(list, IndexOf(c)) = 0
    THEN c.op = "Ne"
    ELSE Compare(c.op, First(list, IndexOf(c)), c.value)

Matches(k, c) ==
    CASE c.on \in {"String", "Number"} -> MatchesAnnotation(entities[k].annotations, c)
      [] c.on = "Owner" -> entities[k].owner = c.value
      [] c.on = "Key" -> k = c.value
      [] c.on = "Expiration" -> entities[k].expires = c.value

(* get_candidates: how often each key is a candidate. *)
Candidates(c) ==
    CASE c.on \in {"String", "Number"} ->
            [k \in Keys |-> IF IndexOf(c) \in Names THEN annotated[IndexOf(c)][k] ELSE 0]
      [] c.on = "Owner" ->
            [k \in Keys |-> IF c.value \in Owners THEN byOwner[c.value][k] ELSE 0]
      [] c.on = "Key" -> [k \in Keys |-> IF Live(k) /\ k = c.value THEN 1 ELSE 0]
      [] c.on = "Expiration" ->
            [k \in Keys |-> IF Live(k) /\ entities[k].expires = c.value THEN 1 ELSE 0]

FoundByCondition(c) ==
    [k \in Keys |-> IF Live(k) /\ Matches(k, c) THEN Candidates(c)[k] ELSE 0]

Once(keys) == [k \in Keys |-> IF k \in keys THEN 1 ELSE 0]

FoundByNot(found) == Once({k \in Keys : Live(k) /\ found[k] = 0})

(* evaluate_expression *)
FoundByBoth(l, r) == Once({k \in Keys : l[k] > 0 /\ r[k] > 0})
FoundByEither(l, r) == Once({k \in Keys : l[k] > 0 \/ r[k] > 0})

Found[i \in DOMAIN Expressions] ==
    LET e == Expressions[i]
    IN CASE e.kind = "Condition" -> FoundByCondition(e)
         [] e.kind = "And" -> FoundByBoth(Found[e.left], Found[e.right])
         [] e.kind = "Or" -> FoundByEither(Found[e.left], Found[e.right])
         [] e.kind = "Not" -> FoundByNot(Found[e.of])

--------------------------------------------------------------------------------
(* What a query means, entity by entity *)

HasAnnotation(k, c) ==
    /\ Carried(entities[k].annotations, IndexOf(c)) > 0
    /\ Compare(c.op, First(entities[k].annotations, IndexOf(c)), c.value)

HasWhat(k, c) ==
    CASE c.on \in {"String", "Number"} -> HasAnnotation(k, c)
      [] c.on = "Owner" -> entities[k].owner = c.value
      [] c.on = "Key" -> k = c.value
      [] c.on = "Expiration" -> entities[k].expires = c.value

(* The entities that an expression holds for. *)
Meant[i \in DOMAIN Expressions] ==
    LET e == Expressions[i]
    IN {k \in Keys : Live(k) /\
            CASE e.kind = "Condition" -> HasWhat(k, e)
              [] e.kind = "And" -> k \in Meant[e.left] /\ k \in Meant[e.right]
              [] e.kind = "Or" -> k \in Meant[e.left] \/ k \in Meant[e.right]
              [] e.kind = "Not" -> k \notin Meant[e.of]}

Times(k, e) ==
    IF e.kind = "Condition" /\ e.on \in {"String", "Number"}
    THEN Carried(entities[k].annotations, IndexOf(e))
    ELSE 1

(* Whether an expression has a condition on the owner in it. *)
AsksOwner[i \in DOMAIN Expressions] ==
    LET e == Expressions[i]
    IN CASE e.kind = "Condition" -> e.on = "Owner"
         [] e.kind \in {"And", "Or"} -> AsksOwner[e.left] \/ AsksOwner[e.right]
         [] e.kind = "Not" -> AsksOwner[e.of]

GivenAway(k) == Live(k) /\ entities[k].owner # creator[k]

(* A query finds the entities it holds for and no others, at any moment: an   *)
(* inequality only those that have the annotation, a negation all the rest,   *)
(* "not owned by the zero address" everything.  Each is found once, but for a *)
(* single condition on a name that an entity has several times.  Nothing is   *)
(* said of what a query about owners finds of entities that do not belong to  *)
(* their creator: OwnedAreFound.                                              *)
QueriesExact ==
    \A i \in DOMAIN Expressions :
        LET found == Found[i]
            meant == Meant[i]
        IN \A k \in Keys : ~(AsksOwner[i] /\ GivenAway(k)) =>
                found[k] = IF k \in meant THEN Times(k, Expressions[i]) ELSE 0

(* "Gets the entity keys of all entities owned by the given address": the     *)
(* query for an owner finds every entity that has this owner.  Refuted: a     *)
(* change of owner leaves the owner index as it is.                           *)
OwnedAreFound ==
    \A k \in Keys : Live(k) =>
        FoundByCondition([on |-> "Owner", op |-> "Eq", value |-> entities[k].owner])[k] > 0
================================================================================
