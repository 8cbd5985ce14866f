--------------------------- MODULE QueryClient_proofs ---------------------------
(* Theorems about QueryClient, for any answers, page size and number of errors, *)
(* blocks and changes.                                                          *)
EXTENDS QueryClient, SequenceTheorems, TLAPS

(* An answer is a sequence of entities. *)
LEMMA AnswerType ==
    ASSUME NEW data \in Answers
    PROVE  /\ data \in Seq(Entities)
           /\ Len(data) \in Nat
           /\ \A i, j \in Int :
                1 <= i /\ j <= Len(data) => SubSeq(data, i, j) \in Seq(Entities)
<1>1. data \in Seq(Entities)
  BY AnswersAssumption
<1>2. Len(data) \in Nat
  BY <1>1, LenProperties
<1>3. ASSUME NEW i \in Int, NEW j \in Int, 1 <= i, j <= Len(data)
      PROVE  SubSeq(data, i, j) \in Seq(Entities)
  <2>1. \A k \in i .. j : data[k] \in Entities
    BY <1>1, <1>2, <1>3, ElementOfSeq
  <2> QED
    BY <2>1, SubSeqProperties
<1> QED
  BY <1>1, <1>2, <1>3

(* The loop around a request stays within its number of repetitions. *)
LEMMA LoopType ==
    ASSUME NEW l \in Loops, NEW e \in Errors
    PROVE  /\ Repeats(l, e) => AfterError(l, e) \in Loops
           /\ [l EXCEPT !.elapsed = TRUE] \in Loops
<1>1. ASSUME Repeats(l, e), e = "sending"
      PROVE  [l EXCEPT !.attempts = @ + 1] \in Loops
  <2>1. l.attempts + 1 \in 0 .. MaxRetries
    BY <1>1, RetriesAssumption DEF Loops, Repeats
  <2> QED
    BY <2>1 DEF Loops
<1>2. [l EXCEPT !.elapsed = TRUE] \in Loops
  BY DEF Loops
<1> QED
  BY <1>1, <1>2 DEF AfterError

LEMMA StartedType == Started \in Loops
  BY RetriesAssumption DEF Started, Loops

--------------------------------------------------------------------------------
(* What the types leave out: the mock has read when it is about to answer. *)
ReadInv ==
    /\ pc \in {"idle", "asking", "read", "answered", "refused"} => options.cursor \in Nat
    /\ pc = "read" => node = "mock" /\ read # None
    /\ pc = "idle" => results = <<>> /\ errors = 0
    /\ pc # "idle" => asked # None

TInv == TypeOK /\ ReadInv

(* The initial state is well-typed. *)
LEMMA InitTInv == Init => TInv
<1> SUFFICES ASSUME Init PROVE TInv
  OBVIOUS
<1>1. PICK a \in Answers : versions = <<a>>
  BY DEF Init
<1>2. versions \in Seq(Answers) /\ versions # <<>> /\ Len(versions) = 1
  BY <1>1
<1>3. blocks \in Seq(1 .. Len(versions)) /\ blocks # <<>>
  BY <1>2 DEF Init
<1>4. results \in Seq(Entities)
  BY DEF Init
<1>5. /\ pc = "idle" /\ response = None /\ errors = 0 /\ error = None /\ read = None /\ asked = None
      /\ options = [at |-> None, cursor |-> 0] /\ loop = Started /\ node \in {"mock", "paged"}
      /\ adding = FALSE /\ results = <<>>
  BY DEF Init
<1>6. options \in [at : Blocks \union {None}, cursor : Nat \union {None}] /\ options.cursor # None
  BY <1>5, NoneAssumption
<1>7. errors \in 0 .. MaxQueryErrors + 1 /\ errors # MaxQueryErrors + 1
  BY <1>5, PagesAssumption
<1> QED
  BY <1>2, <1>3, <1>4, <1>5, <1>6, <1>7, StartedType DEF TInv, TypeOK, ReadInv, Running

(* The data of a block is what the query matches in some version. *)
LEMMA DataType ==
    ASSUME TypeOK, NEW b \in Blocks
    PROVE  /\ blocks[b + 1] \in DOMAIN versions
           /\ DataOf(b) \in Answers
<1>1. b + 1 \in 1 .. Len(blocks) /\ Len(blocks) \in Nat /\ Len(versions) \in Nat
  BY LenProperties DEF TypeOK, Blocks
<1>2. blocks[b + 1] \in 1 .. Len(versions)
  BY <1>1, ElementOfSeq DEF TypeOK
<1>3. DOMAIN versions = 1 .. Len(versions)
  BY LenProperties DEF TypeOK
<1> QED
  BY <1>2, <1>3, ElementOfSeq DEF TypeOK, DataOf

(* An answer of either node is well-typed. *)
LEMMA AnswerStepType ==
    ASSUME TInv, pc \in {"asking", "read"},
           NEW rows \in Seq(Entities), NEW block \in Blocks, NEW cursor \in Nat \union {None},
           Answer(rows, block, cursor)
    PROVE  TInv'
<1>1. response' \in [rows : Seq(Entities), block : Blocks, cursor : Nat \union {None}]
  BY DEF Answer
<1>2. Blocks \subseteq Nat
  BY LenProperties DEF TInv, TypeOK, Blocks
<1>3. response' # None
  BY <1>1, <1>2, NoneAssumption
<1> QED
  BY <1>1, <1>3 DEF TInv, TypeOK, ReadInv, Answer, chainVars, Running, Blocks

(* Every step of the chain, of the nodes and of the query keeps the types. *)
LEMMA NextTInv == TInv /\ [Next]_vars => TInv'
<1> SUFFICES ASSUME TInv, [Next]_vars
             PROVE  TInv'
  OBVIOUS
<1> USE DEF TInv
<1>0. /\ Len(blocks) \in Nat \ {0} /\ Len(versions) \in Nat \ {0}
      /\ DOMAIN blocks = 1 .. Len(blocks) /\ DOMAIN versions = 1 .. Len(versions)
      /\ Blocks = 0 .. Len(blocks) - 1 /\ Latest \in Blocks
  BY LenProperties, EmptySeq DEF TypeOK, Blocks, Latest
<1>1. CASE BeginBlock
  BY <1>1 DEF BeginBlock, queryVars, TypeOK, ReadInv, Blocks
<1>2. CASE Operate
  <2>1. PICK a \in Answers : versions' = Append(versions, a)
    BY <1>2 DEF Operate
  <2>2. versions' \in Seq(Answers) /\ versions' # <<>> /\ Len(versions') = Len(versions) + 1
    BY <2>1 DEF TypeOK
  <2>3. DOMAIN versions \subseteq DOMAIN versions' /\ 1 .. Len(versions) \subseteq 1 .. Len(versions')
    BY <1>0, <2>2
  <2>4. blocks' \in Seq(1 .. Len(versions'))
    BY <1>2, <2>3, SeqMonotonic DEF Operate, TypeOK
  <2> QED
    BY <1>2, <2>2, <2>3, <2>4 DEF Operate, queryVars, TypeOK, ReadInv, Blocks
<1>3. CASE EndBlock
  <2>1. /\ blocks' \in Seq(1 .. Len(versions')) /\ blocks' # <<>>
        /\ Len(blocks') = Len(blocks) + 1
    <3>1. versions' = versions /\ blocks' = Append(blocks, Len(versions))
      BY <1>3 DEF EndBlock
    <3>2. Len(versions) \in 1 .. Len(versions)
      BY <1>0
    <3>3. blocks \in Seq(1 .. Len(versions))
      BY DEF TypeOK
    <3>4. /\ blocks' \in Seq(1 .. Len(versions)) /\ blocks' # <<>>
          /\ Len(blocks') = Len(blocks) + 1
      BY <3>1, <3>2, <3>3, AppendProperties
    <3> QED
      BY <3>1, <3>4
  <2>2. Blocks \subseteq Blocks'
    BY <1>0, <2>1 DEF Blocks
  <2> QED
    BY <1>3, <2>1, <2>2 DEF EndBlock, queryVars, TypeOK, ReadInv
<1>4. CASE Begin
  <2>1. blocks[Len(blocks)] \in 1 .. Len(versions)
    BY <1>0, ElementOfSeq DEF TypeOK
  <2>2. asked' \in DOMAIN versions /\ asked' # None
    BY <1>0, <1>4, <2>1, NoneAssumption DEF Begin
  <2>3. options' \in [at : Blocks \union {None}, cursor : Nat] /\ options'.cursor = options.cursor
    BY <1>4 DEF Begin, TypeOK, ReadInv
  <2> QED
    BY <1>4, <2>2, <2>3, NoneAssumption DEF Begin, chainVars, TypeOK, ReadInv, Running, Blocks
<1>5. CASE PagedAnswers
  <2> DEFINE block == IF options.at = None THEN Latest ELSE options.at
  <2>1. block \in Blocks /\ options.cursor \in Nat
    BY <1>0, <1>5 DEF PagedAnswers, TypeOK, ReadInv
  <2>2. DataOf(block) \in Answers
    BY <2>1, DataType
  <2> DEFINE data == DataOf(block)
             end == options.cursor + PageSize
  <2>3. end \in Nat /\ Len(data) \in Nat
    BY <2>1, <2>2, AnswerType, PagesAssumption
  <2>4. /\ end < Len(data) => SubSeq(data, options.cursor + 1, end) \in Seq(Entities)
        /\ SubSeq(data, options.cursor + 1, Len(data)) \in Seq(Entities)
    BY <2>1, <2>2, <2>3, AnswerType
  <2>5. \/ /\ end < Len(data)
           /\ Answer(SubSeq(data, options.cursor + 1, end), block, end)
        \/ Answer(SubSeq(data, options.cursor + 1, Len(data)), block, None)
    BY <1>5 DEF PagedAnswers
  <2> QED
    BY <1>5, <2>1, <2>3, <2>4, <2>5, AnswerStepType DEF PagedAnswers
<1>6. CASE MockReads
  BY <1>0, <1>6, NoneAssumption DEF MockReads, chainVars, TypeOK, ReadInv, Running, Blocks
<1>7. CASE MockAnswers
  <2>1. versions[read] \in Answers
    BY <1>0, <1>7, ElementOfSeq DEF MockAnswers, TypeOK, ReadInv
  <2> QED
    BY <1>0, <1>7, <2>1, AnswerType, AnswerStepType DEF MockAnswers
<1>8. CASE Fail
  BY <1>8, NoneAssumption DEF Fail, chainVars, TypeOK, ReadInv, Running, Blocks
<1>9. CASE Repeat
  <2>1. error \in Errors /\ loop' \in Loops
    BY <1>9, LoopType DEF Repeat, TypeOK
  <2> QED
    BY <1>9, <2>1 DEF Repeat, chainVars, TypeOK, ReadInv, Running, Blocks
<1>10. CASE Elapse
  <2>1. loop' \in Loops
    BY <1>10 DEF Elapse, TypeOK, Loops
  <2> QED
    BY <1>10, <2>1 DEF Elapse, chainVars, TypeOK, ReadInv, Blocks
<1>11. CASE TakePage
  <2>1. response \in [rows : Seq(Entities), block : Blocks, cursor : Nat \union {None}]
    BY <1>11 DEF TakePage, TypeOK
  <2>2. results' \in Seq(Entities)
    BY <1>11, <2>1, ConcatProperties DEF TakePage, TypeOK
  <2>3. /\ options' \in [at : Blocks \union {None}, cursor : Nat \union {None}]
        /\ pc' = (IF options'.cursor = None THEN "done" ELSE "asking")
    BY <1>11, <2>1 DEF TakePage
  <2> QED
    BY <1>11, <2>2, <2>3, StartedType DEF TakePage, chainVars, TypeOK, ReadInv, Running, Blocks
<1>12. CASE TakeError
  BY <1>12, StartedType, PagesAssumption DEF TakeError, chainVars, TypeOK, ReadInv, Running, Blocks
<1>13. CASE GiveUp
  <2>1. errors' = MaxQueryErrors + 1 /\ options' \in [at : Blocks \union {None}, cursor : {None}]
    BY <1>13, PagesAssumption DEF GiveUp, TypeOK
  <2> QED
    BY <1>13, <2>1, PagesAssumption, NoneAssumption DEF GiveUp, chainVars, TypeOK, ReadInv, Running, Blocks
<1>14. CASE UNCHANGED vars
  BY <1>14 DEF vars, chainVars, queryVars, TypeOK, ReadInv, Blocks
<1> QED
  BY <1>1, <1>2, <1>3, <1>4, <1>5, <1>6, <1>7, <1>8, <1>9, <1>10, <1>11, <1>12, <1>13, <1>14
     DEF Next, QueryStep

(* Every state of a query is well-typed: among others, a response is there      *)
(* exactly when it is to be taken, and the stream ends with the last cursor.    *)
THEOREM TypeCorrect == Spec => []TypeOK
<1>1. TInv => TypeOK
  BY DEF TInv
<1> QED
  BY <1>1, InitTInv, NextTInv, PTL DEF Spec

--------------------------------------------------------------------------------
(* OneSnapshot *)

(* Where the paged query stands in the data of its block, also when the rows *)
(* of an answer have not been taken yet.                                     *)
PageEnd == IF response.cursor = None THEN Len(DataOf(response.block)) ELSE response.cursor

PagesInv ==
    node = "paged" /\ pc # "gaveUp" =>
        /\ pc = "idle" => options.at = None
        /\ options.at = None => pc # "done" /\ results = <<>> /\ options.cursor = 0
        /\ options.at # None =>
            /\ Taken <= Len(DataOf(options.at))
            /\ results = SubSeq(DataOf(options.at), 1, Taken)
        /\ pc = "answered" =>
            /\ options.at # None => response.block = options.at
            /\ PageEnd \in options.cursor .. Len(DataOf(response.block))
            /\ response.rows = SubSeq(DataOf(response.block), options.cursor + 1, PageEnd)

SInv == TInv /\ PagesInv

(* Blocks that are there keep their data, whatever the chain does. *)
LEMMA DataKept ==
    ASSUME TypeOK, [Next]_vars, NEW b \in Blocks
    PROVE  DataOf(b)' = DataOf(b)
<1>0. /\ blocks[b + 1] \in 1 .. Len(versions)
      /\ b + 1 \in 1 .. Len(blocks)
  BY DataType, LenProperties DEF TypeOK, Blocks
<1>1. CASE Operate
  <2>1. PICK a \in Answers : versions' = Append(versions, a)
    BY <1>1 DEF Operate
  <2>2. blocks' = blocks
    BY <1>1 DEF Operate
  <2> QED
    BY <1>0, <2>1, <2>2, AppendProperties DEF TypeOK, DataOf
<1>2. CASE EndBlock
  <2>1. blocks' = Append(blocks, Len(versions)) /\ versions' = versions
    BY <1>2 DEF EndBlock
  <2>2. Len(versions) \in 1 .. Len(versions)
    BY LenProperties, EmptySeq DEF TypeOK
  <2> QED
    BY <1>0, <2>1, <2>2, AppendProperties DEF TypeOK, DataOf
<1>3. CASE UNCHANGED <<versions, blocks>>
  BY <1>3 DEF DataOf
<1> QED
  BY <1>1, <1>2, <1>3 DEF Next, QueryStep, Begin, BeginBlock, PagedAnswers, MockReads, MockAnswers,
     Answer, Fail, Repeat, Elapse, TakePage, TakeError, GiveUp, chainVars, vars

(* A step that leaves the query alone leaves what is known of its pages. *)
LEMMA PagesUntouched ==
    ASSUME SInv, [Next]_vars,
           UNCHANGED <<node, pc, options, response, results>>
    PROVE  PagesInv'
<1>1. options.at # None => DataOf(options.at)' = DataOf(options.at)
  BY DataKept DEF SInv, TInv, TypeOK
<1>2. pc = "answered" => DataOf(response.block)' = DataOf(response.block)
  BY DataKept DEF SInv, TInv, TypeOK
<1>3. options.at # None => Taken' = Taken
  BY <1>1 DEF Taken
<1>4. pc = "answered" => PageEnd' = PageEnd
  BY <1>2 DEF PageEnd
<1> QED
  BY <1>1, <1>2, <1>3, <1>4 DEF SInv, PagesInv

(* Nothing is taken before the first answer, and no answer is there. *)
LEMMA InitPagesInv == Init => PagesInv
  BY NoneAssumption DEF Init, PagesInv

(* Answers continue where the last one ended, in the same block. *)
LEMMA NextPagesInv == SInv /\ [Next]_vars => PagesInv'
<1> SUFFICES ASSUME SInv, [Next]_vars
             PROVE  PagesInv'
  OBVIOUS
<1>0. node' = node
  <2>1. BeginBlock \/ Operate \/ EndBlock => node' = node
    BY DEF BeginBlock, Operate, EndBlock
  <2>2. PagedAnswers \/ MockReads \/ MockAnswers => node' = node
    BY DEF PagedAnswers, MockReads, MockAnswers, Answer, chainVars
  <2>3. Begin \/ Elapse \/ Fail \/ Repeat => node' = node
    BY DEF Begin, Elapse, Fail, Repeat, chainVars
  <2>4. TakePage \/ TakeError \/ GiveUp => node' = node
    BY DEF TakePage, TakeError, GiveUp, chainVars
  <2>5. UNCHANGED vars => node' = node
    BY DEF vars, chainVars
  <2> QED
    BY <2>1, <2>2, <2>3, <2>4, <2>5 DEF Next, QueryStep
<1> SUFFICES ASSUME node = "paged"
             PROVE  PagesInv'
  BY <1>0 DEF PagesInv
<1> USE DEF SInv
<1>1. CASE BeginBlock \/ Operate \/ EndBlock \/ Elapse \/ UNCHANGED vars
  <2>1. BeginBlock \/ Operate \/ EndBlock => UNCHANGED <<node, queryVars>>
    BY DEF BeginBlock, Operate, EndBlock
  <2>2. Elapse => UNCHANGED <<node, pc, options, response, results>>
    BY DEF Elapse, chainVars
  <2>3. UNCHANGED <<node, pc, options, response, results>>
    BY <1>1, <2>1, <2>2 DEF queryVars, chainVars, vars
  <2> QED
    BY <2>3, PagesUntouched
<1>2. CASE Begin
  <2>1. /\ options' \in [at : Blocks \union {None}, cursor : Nat \union {None}]
        /\ options'.cursor = options.cursor /\ results' = <<>> /\ pc' = "asking"
    BY <1>2 DEF Begin, TInv, TypeOK, ReadInv
  <2>2. options.cursor = 0
    BY <1>2 DEF Begin, PagesInv
  <2>3. ASSUME options'.at # None
        PROVE  /\ Len(DataOf(options'.at)) \in Nat
               /\ SubSeq(DataOf(options'.at), 1, 0) = <<>>
    BY <2>1, <2>3, DataType, AnswerType, SubSeqEmpty DEF TInv
  <2>4. Taken' = 0 /\ UNCHANGED <<versions, blocks>>
    BY <1>2, <2>1, <2>2, NoneAssumption DEF Begin, Taken, chainVars
  <2> QED
    BY <2>1, <2>2, <2>3, <2>4 DEF PagesInv, DataOf
<1>3. CASE PagedAnswers
  <2> DEFINE block == IF options.at = None THEN Latest ELSE options.at
             data == DataOf(block)
             end == options.cursor + PageSize
  <2>1. block \in Blocks /\ options.cursor \in Nat
    BY <1>3, LenProperties, EmptySeq DEF PagedAnswers, TInv, TypeOK, ReadInv, Latest, Blocks
  <2>2. Len(data) \in Nat /\ end \in Nat /\ end > options.cursor
    BY <2>1, DataType, AnswerType, PagesAssumption DEF TInv
  <2>3. options.cursor <= Len(data)
    BY <1>3, <2>1, <2>2, NoneAssumption DEF PagedAnswers, PagesInv, Taken
  <2>4. /\ pc' = "answered" /\ UNCHANGED <<options, results, versions, blocks>>
        /\ response'.block = block
        /\ \/ /\ end < Len(data)
              /\ response'.rows = SubSeq(data, options.cursor + 1, end) /\ response'.cursor = end
           \/ /\ response'.rows = SubSeq(data, options.cursor + 1, Len(data))
              /\ response'.cursor = None
    BY <1>3 DEF PagedAnswers, Answer, chainVars
  <2>5. DataOf(response.block)' = data /\ Taken' = Taken
    BY <2>4 DEF DataOf, Taken
  <2>6. /\ PageEnd' \in options.cursor .. Len(data)
        /\ response'.rows = SubSeq(data, options.cursor + 1, PageEnd')
    BY <2>1, <2>2, <2>3, <2>4, <2>5, NoneAssumption DEF PageEnd
  <2>7. options'.at # None => DataOf(options.at)' = DataOf(options.at)
    BY <2>4 DEF DataOf
  <2>8. pc = "asking"
    BY <1>3 DEF PagedAnswers
  <2> QED
    BY <2>4, <2>5, <2>6, <2>7, <2>8 DEF PagesInv
<1>4. CASE MockReads \/ MockAnswers
  BY <1>4 DEF MockReads, MockAnswers, TInv, ReadInv
<1>5. CASE Fail \/ Repeat \/ TakeError
  <2>1. /\ pc \in {"asking", "read", "refused"} /\ pc' \in {"asking", "refused"}
        /\ UNCHANGED <<options, results, versions, blocks>>
    BY <1>5 DEF Fail, Repeat, TakeError, chainVars
  <2>2. Taken' = Taken /\ DataOf(options.at)' = DataOf(options.at)
    BY <2>1 DEF Taken, DataOf
  <2> QED
    BY <2>1, <2>2 DEF PagesInv
<1>6. CASE GiveUp
  BY <1>6 DEF GiveUp, PagesInv
<1>7. CASE TakePage
  <2> DEFINE data == DataOf(response.block)
  <2>1. /\ pc = "answered"
        /\ response \in [rows : Seq(Entities), block : Blocks, cursor : Nat \union {None}]
        /\ options.cursor \in Nat /\ results \in Seq(Entities)
    BY <1>7 DEF TakePage, TInv, TypeOK, ReadInv
  <2>2. data \in Seq(Entities) /\ Len(data) \in Nat /\ response.block # None
    BY <2>1, DataType, AnswerType, NoneAssumption, LenProperties DEF TInv, TypeOK, Blocks
  <2>3. /\ PageEnd \in options.cursor .. Len(data)
        /\ response.rows = SubSeq(data, options.cursor + 1, PageEnd)
        /\ results = SubSeq(data, 1, options.cursor)
    <3>1. CASE options.at = None
      BY <2>1, <2>2, <3>1, SubSeqEmpty DEF PagesInv
    <3>2. CASE options.at # None
      BY <2>1, <3>2, NoneAssumption DEF PagesInv, Taken
    <3> QED
      BY <3>1, <3>2
  <2>4. results \o response.rows = SubSeq(data, 1, PageEnd)
    <3>1. \A k, n \in Nat : k <= n /\ n <= Len(data) =>
            SubSeq(data, 1, k) \o SubSeq(data, k + 1, n) = SubSeq(data, 1, n)
      <4> SUFFICES ASSUME NEW k \in Nat, NEW n \in Nat, k <= n, n <= Len(data)
                   PROVE  SubSeq(data, 1, k) \o SubSeq(data, k + 1, n) = SubSeq(data, 1, n)
        OBVIOUS
      <4>1. 1 \in 1 .. Len(data) + 1 /\ k \in 1 - 1 .. Len(data) /\ n \in k .. Len(data)
        BY <2>2
      <4> QED
        BY <2>2, <4>1, ConcatAdjacentSubSeq
    <3>2. PageEnd \in Nat /\ options.cursor <= PageEnd /\ PageEnd <= Len(data)
      BY <2>1, <2>2, <2>3
    <3> QED
      BY <2>1, <2>3, <3>1, <3>2
  <2>5. /\ results' = SubSeq(data, 1, PageEnd) /\ options'.at = response.block
        /\ options'.cursor = response.cursor /\ pc' \in {"done", "asking"}
        /\ UNCHANGED <<versions, blocks>>
    <3>1. /\ results' = results \o response.rows
          /\ options' = [at |-> response.block, cursor |-> response.cursor]
          /\ pc' = (IF response.cursor = None THEN "done" ELSE "asking")
          /\ UNCHANGED chainVars
      BY <1>7 DEF TakePage
    <3> QED
      BY <2>4, <3>1 DEF chainVars
  <2>6. DataOf(options.at)' = data /\ Taken' = PageEnd
    BY <2>5 DEF DataOf, Taken, PageEnd
  <2> QED
    BY <2>1, <2>2, <2>3, <2>5, <2>6 DEF PagesInv
<1> QED
  BY <1>1, <1>2, <1>3, <1>4, <1>5, <1>6, <1>7 DEF Next, QueryStep

(* The pages of a query, however many there are and whatever is committed      *)
(* between them, make up the beginning of the data of one and the same block.  *)
THEOREM PagesOfOneBlock == Spec => []OneSnapshot
<1>1. Init => SInv
  BY InitTInv, InitPagesInv DEF SInv
<1>2. SInv /\ [Next]_vars => SInv'
  BY NextTInv, NextPagesInv DEF SInv
<1>3. SInv => OneSnapshot
  BY DEF SInv, PagesInv, OneSnapshot
<1> QED
  BY <1>1, <1>2, <1>3, PTL DEF Spec

--------------------------------------------------------------------------------
(* DataOfNamedBlock *)

(* What the mock has read lies between the version that was there at the    *)
(* beginning and the version that the named block ends with, because the    *)
(* number is read only when no block is being added: then the store is what *)
(* the last block ended with.                                               *)
ReadBetween(b) ==
    /\ b \in Blocks
    /\ read \in DOMAIN versions
    /\ read \in asked .. blocks[b + 1]

MockInv ==
    /\ ~adding => blocks[Len(blocks)] = Len(versions)
    /\ node = "mock" =>
        /\ pc \in {"idle", "asking", "read", "refused", "answered"} => results = <<>>
        /\ pc = "read" => asked <= read
        /\ pc = "answered" =>
            /\ ReadBetween(response.block)
            /\ response.rows = versions[read] /\ response.cursor = None
        /\ pc = "done" =>
            /\ ReadBetween(options.at)
            /\ results = versions[read]

MInv == TInv /\ MockInv

LEMMA InitMockInv == Init => MockInv
  BY DEF Init, MockInv

(* What was read or answered stays what it was, whatever the chain does. *)
LEMMA HistoryKept ==
    ASSUME TypeOK, BeginBlock \/ Operate \/ EndBlock
    PROVE  /\ \A v \in DOMAIN versions : v \in DOMAIN versions' /\ versions'[v] = versions[v]
           /\ \A b \in Blocks : b \in Blocks' /\ blocks'[b + 1] = blocks[b + 1]
           /\ ~adding' => blocks'[Len(blocks')] = Len(versions')
<1>0. /\ Len(blocks) \in Nat \ {0} /\ Len(versions) \in Nat \ {0}
      /\ DOMAIN versions = 1 .. Len(versions) /\ Blocks = 0 .. Len(blocks) - 1
  BY LenProperties, EmptySeq DEF TypeOK, Blocks
<1>1. CASE BeginBlock
  BY <1>1 DEF BeginBlock, Blocks
<1>2. CASE Operate
  <2>1. PICK a \in Answers : versions' = Append(versions, a)
    BY <1>2 DEF Operate
  <2>2. /\ versions' \in Seq(Answers) /\ Len(versions') = Len(versions) + 1
        /\ \A v \in 1 .. Len(versions) : versions'[v] = versions[v]
    BY <2>1, AppendProperties DEF TypeOK
  <2>3. DOMAIN versions' = 1 .. Len(versions) + 1
    BY <2>2, LenProperties
  <2>4. blocks' = blocks /\ adding'
    BY <1>2 DEF Operate
  <2> QED
    BY <1>0, <2>2, <2>3, <2>4 DEF Blocks
<1>3. CASE EndBlock
  <2>1. blocks' = Append(blocks, Len(versions)) /\ versions' = versions
    BY <1>3 DEF EndBlock
  <2>2. Len(versions) \in 1 .. Len(versions)
    BY <1>0
  <2>3. /\ Len(blocks') = Len(blocks) + 1
        /\ \A i \in 1 .. Len(blocks) : blocks'[i] = blocks[i]
        /\ blocks'[Len(blocks) + 1] = Len(versions)
    BY <2>1, <2>2, AppendProperties DEF TypeOK
  <2> QED
    BY <1>0, <2>1, <2>3 DEF Blocks
<1> QED
  BY <1>1, <1>2, <1>3

(* The mock answers when no block is being added. *)
LEMMA NextMockInv == MInv /\ [Next]_vars => MockInv'
<1> SUFFICES ASSUME MInv, [Next]_vars
             PROVE  MockInv'
  OBVIOUS
<1> USE DEF MInv
<1>0. /\ Len(blocks) \in Nat \ {0} /\ Len(versions) \in Nat \ {0}
      /\ DOMAIN versions = 1 .. Len(versions) /\ Blocks = 0 .. Len(blocks) - 1
      /\ \A b \in Blocks : blocks[b + 1] \in 1 .. Len(versions)
  BY LenProperties, EmptySeq, DataType DEF TInv, TypeOK, Blocks
<1>1. CASE BeginBlock \/ Operate \/ EndBlock
  <2>1. UNCHANGED <<node, queryVars>>
    BY <1>1 DEF BeginBlock, Operate, EndBlock
  <2>2. \A b : ReadBetween(b) => ReadBetween(b)'
    <3>1. /\ \A b \in Blocks : b \in Blocks' /\ blocks'[b + 1] = blocks[b + 1]
          /\ \A v \in DOMAIN versions : v \in DOMAIN versions'
      BY <1>1, HistoryKept DEF TInv
    <3>2. read' = read /\ asked' = asked
      BY <2>1 DEF queryVars
    <3> SUFFICES ASSUME NEW b, ReadBetween(b)
                 PROVE  ReadBetween(b)'
      OBVIOUS
    <3>3. b \in Blocks /\ read \in asked .. blocks[b + 1] /\ read \in DOMAIN versions
      BY DEF ReadBetween
    <3>4. b \in Blocks' /\ blocks'[b + 1] = blocks[b + 1]
      BY <3>1, <3>3
    <3>5. read' \in asked' .. blocks'[b + 1]
      BY <3>2, <3>3, <3>4
    <3>6. read' \in DOMAIN versions'
      BY <3>1, <3>2, <3>3
    <3> QED
      BY <3>4, <3>5, <3>6 DEF ReadBetween
  <2>3. \A b : ReadBetween(b) => read \in DOMAIN versions
    BY DEF ReadBetween
  <2>4. /\ \A v \in DOMAIN versions : versions'[v] = versions[v]
        /\ ~adding' => blocks'[Len(blocks')] = Len(versions')
    BY <1>1, HistoryKept DEF TInv
  <2>5. UNCHANGED <<node, pc, options, response, results, read, asked>>
    BY <2>1 DEF queryVars
  <2> QED
    BY <2>2, <2>3, <2>4, <2>5 DEF MockInv
<1>2. ASSUME UNCHANGED <<chainVars, read, asked>>
      PROVE  \A b : ReadBetween(b) => ReadBetween(b)'
  BY <1>2 DEF ReadBetween, Blocks, chainVars
<1>3. CASE Begin \/ Fail \/ Repeat \/ TakeError \/ GiveUp \/ Elapse
  <2>1. CASE Elapse
    BY <1>2, <2>1 DEF Elapse, MockInv, chainVars
  <2>2. CASE ~Elapse
    <3>1. UNCHANGED <<chainVars, results>> /\ pc' \in {"asking", "refused", "gaveUp"}
      BY <1>3, <2>2 DEF Begin, Fail, Repeat, TakeError, GiveUp
    <3>2. pc \in {"idle", "asking", "read", "refused"}
      BY <1>3, <2>2 DEF Begin, Fail, Repeat, TakeError, GiveUp
    <3> QED
      BY <3>1, <3>2 DEF MockInv, chainVars
  <2> QED
    BY <2>1, <2>2
<1>4. CASE PagedAnswers
  BY <1>4 DEF PagedAnswers, Answer, MockInv, chainVars
<1>5. CASE MockReads
  <2>1. asked <= Len(versions)
    BY <1>0, <1>5 DEF MockReads, TInv, TypeOK, ReadInv
  <2> QED
    BY <1>5, <2>1 DEF MockReads, MockInv, chainVars
<1>6. CASE MockAnswers
  <2>1. /\ read \in asked .. blocks[Latest + 1] /\ Latest \in Blocks
        /\ read \in DOMAIN versions
    BY <1>0, <1>6 DEF MockAnswers, MockInv, TInv, TypeOK, ReadInv, Latest
  <2>2. /\ response' = [rows |-> versions[read], block |-> Latest, cursor |-> None]
        /\ pc' = "answered" /\ UNCHANGED <<chainVars, read, asked, results>>
    BY <1>6 DEF MockAnswers, Answer
  <2>3. ReadBetween(response.block)'
    BY <2>1, <2>2 DEF ReadBetween, Blocks, chainVars
  <2> QED
    BY <1>6, <2>2, <2>3 DEF MockAnswers, MockInv, chainVars
<1>7. CASE TakePage
  <2>1. /\ pc = "answered" /\ results' = results \o response.rows
        /\ options' = [at |-> response.block, cursor |-> response.cursor]
        /\ pc' = (IF response.cursor = None THEN "done" ELSE "asking")
        /\ UNCHANGED <<chainVars, read, asked>>
    BY <1>7 DEF TakePage
  <2>2. ASSUME node = "mock"
        PROVE  /\ results' = versions[read] /\ pc' = "done"
               /\ ReadBetween(options.at)'
    <3>1. response.rows \in Seq(Entities)
      BY <2>1 DEF TInv, TypeOK
    <3>2. results = <<>> /\ response.rows = versions[read] /\ response.cursor = None
      BY <2>1, <2>2 DEF MockInv
    <3>3. ReadBetween(response.block) /\ options'.at = response.block /\ pc' = "done"
      BY <2>1, <2>2, <3>2 DEF MockInv
    <3>4. ReadBetween(options.at)'
      BY <2>1, <3>3 DEF ReadBetween, Blocks, chainVars
    <3>5. <<>> \o response.rows = response.rows
      BY <3>1, ConcatEmptySeq
    <3> QED
      BY <2>1, <3>2, <3>3, <3>4, <3>5
  <2> QED
    BY <2>1, <2>2 DEF MockInv, chainVars
<1>8. CASE UNCHANGED vars
  BY <1>2, <1>8 DEF vars, chainVars, queryVars, MockInv
<1> QED
  BY <1>1, <1>3, <1>4, <1>5, <1>6, <1>7, <1>8 DEF Next, QueryStep

(* A query of the mock returns the data of one moment, after the latest block *)
(* of its beginning and not after the block that it names.                    *)
THEOREM NamedBlockHasData == Spec => []DataOfNamedBlock
<1>1. Init => MInv
  BY InitTInv, InitMockInv DEF MInv
<1>2. MInv /\ [Next]_vars => MInv'
  BY NextTInv, NextMockInv DEF MInv
<1>3. MInv => DataOfNamedBlock
  BY DEF MInv, MockInv, ReadBetween, DataOfNamedBlock
<1> QED
  BY <1>1, <1>2, <1>3, PTL DEF Spec
================================================================================
