------------------------------- MODULE Matcher -------------------------------
(***************************************************************************)
(* Messages (message/message.go) and message_matcher (message_matcher.go   *)
(* and the actions of message_matcher_parser.y).  A behaviour either       *)
(* builds a message, with its copy, by the operations that plugins call,   *)
(* or compiles a specification from the nodes that the parser leaves.      *)
(* The characters of a specification and goyacc's tables are left out: an  *)
(* expression is a tree, whose nodes come in the order of the reductions.  *)
(* A regular expression is the set of strings that it matches.             *)
(***************************************************************************)
EXTENDS Integers, Sequences, SequencesExt, FiniteSets, FiniteSetsExt

CONSTANTS MtNames,      \* names of fields
          MtOps         \* bound: operations on a message

VARIABLES mtHeap,       \* the Field objects: name, type and values
          mtMsg,        \* Message.Fields: the array and the slice's length
          mtCopy,       \* fields of the copy
          mtSnap,       \* what the message was when it was copied
          mtOps,        \* operations so far
          mtSpec,       \* the expressions of a specification, all nodes in order
          mtNodes, mtStack  \* nodes still to come, and the stack of trees

mtvars == <<mtHeap, mtMsg, mtCopy, mtSnap, mtOps, mtSpec, mtNodes, mtStack>>

\* What a plugin may hand to NewField: reflect's kind and the value.
MtValue(kind, v) == [kind |-> kind, v |-> v]
MtValues ==
    {MtValue("string", "a"), MtValue("string", "TRUE"), MtValue("bytes", "a"), MtValue("int", 1),
     MtValue("float", 0), MtValue("bool", TRUE), MtValue("bool", FALSE),
     MtValue("slice", "<slice>"), MtValue("map", "none")}

\* getValueType: a slice of anything but bytes leaves t at zero, Field_STRING.
getValueType(v) ==
    CASE v.kind \in {"string", "slice"} -> "STRING"
      [] v.kind = "bytes" -> "BYTES"
      [] v.kind = "int"   -> "INTEGER"
      [] v.kind = "float" -> "DOUBLE"
      [] v.kind = "bool"  -> "BOOL"
      [] OTHER            -> "unsupported"

Leaf(op) == [op |-> op]
Node(op, l, r) == [op |-> op, left |-> l, right |-> r]
Leaves == {Leaf("TRUE"), Leaf("FALSE")}
Trees2 == Leaves \cup {Node(op, l, r) : op \in {"AND", "OR"}, l \in Leaves, r \in Leaves}
Trees3 == Trees2 \cup {Node(op, l, r) : op \in {"AND", "OR"}, l \in Trees2, r \in Trees2}

\* The parser appends a node when it reduces its rule: after its operands.
RECURSIVE NodesOf(_)
NodesOf(t) ==
    IF t.op \in {"TRUE", "FALSE"} THEN <<t>>
    ELSE NodesOf(t.left) \o NodesOf(t.right) \o <<Leaf(t.op)>>

\* A message that is empty or has a field; or a specification of one expression,
\* or of two that follow each other.
MtInit ==
    /\ mtOps = 0 /\ mtCopy = <<>> /\ mtSnap = <<>>
    /\ mtSpec \in {<<>>} \cup {<<t>> : t \in Trees3} \cup {<<s, t>> : s \in Leaves, t \in Trees2}
    /\ mtNodes = FoldLeft(LAMBDA ns, t : ns \o NodesOf(t), <<>>, mtSpec)
    /\ mtStack = <<>>
    /\ \/ mtHeap = <<>> /\ mtMsg = [arr |-> <<>>, len |-> 0]
       \/ /\ mtSpec = <<>> /\ mtMsg = [arr |-> <<1>>, len |-> 1]
          /\ mtHeap \in {<<[name |-> n, type |-> "STRING", vals |-> <<"a">>]>> : n \in MtNames}
------------------------------------------------------------------------------
(* Messages.                                                               *)

Fields(m) == SubSeq(m.arr, 1, m.len)
NilField == 0

\* Message.AddField: the array doubles when it is full.
AddField(m, f) ==
    IF m.len = Len(m.arr)
    THEN [arr |-> Append(m.arr, f) \o [k \in 1..m.len |-> NilField], len |-> m.len + 1]
    ELSE [arr |-> [m.arr EXCEPT ![m.len + 1] = f], len |-> m.len + 1]

\* Message.DeleteField: what follows moves down in the array, whose last stays.
DeleteField(m, f) ==
    LET i == SelectInSeq(Fields(m), LAMBDA x : x = f)
    IN  IF i = 0 THEN m
        ELSE [arr |-> SubSeq(m.arr, 1, i - 1) \o SubSeq(m.arr, i + 1, m.len)
                        \o SubSeq(m.arr, m.len, Len(m.arr)),
              len |-> m.len - 1]

Building == mtSpec = <<>> /\ mtOps < MtOps /\ mtOps' = mtOps + 1
            /\ UNCHANGED <<mtSpec, mtNodes, mtStack>>

\* NewStringField, NewIntField and the like: a field with one value is added; an
\* unsupported value is an error that changes nothing.
NewField(name, v) ==
    IF getValueType(v) = "unsupported" THEN UNCHANGED mtvars
    ELSE /\ Building
         /\ mtHeap' = Append(mtHeap, [name |-> name, type |-> getValueType(v), vals |-> <<v.v>>])
         /\ mtMsg' = AddField(mtMsg, Len(mtHeap) + 1)
         /\ UNCHANGED <<mtCopy, mtSnap>>

\* AddValue, of a value with the type of the field; another is an error.
AddValue(f, v) ==
    IF getValueType(v) # mtHeap[f].type THEN UNCHANGED mtvars
    ELSE /\ Building
         /\ mtHeap' = [mtHeap EXCEPT ![f].vals = Append(@, v.v)]
         /\ UNCHANGED <<mtMsg, mtCopy, mtSnap>>

MtDelete(f) ==
    /\ Building /\ mtMsg' = DeleteField(mtMsg, f)
    /\ UNCHANGED <<mtHeap, mtCopy, mtSnap>>

Contents(heap, fs) == [k \in DOMAIN fs |-> heap[fs[k]]]

\* CopyField for each: objects of their own.
CopyFields ==
    LET fs == Fields(mtMsg)
    IN  /\ mtHeap' = mtHeap \o Contents(mtHeap, fs)
        /\ mtCopy' = [k \in DOMAIN fs |-> Len(mtHeap) + k]

\* Message.Copy, the header fields left out.
Copy ==
    /\ Building /\ mtCopy = <<>> /\ mtMsg.len > 0
    /\ CopyFields
    /\ mtSnap' = Contents(mtHeap, Fields(mtMsg))
    /\ UNCHANGED mtMsg
------------------------------------------------------------------------------
(* Specifications.                                                         *)

\* parseMatcherSpecification: an operator takes its operands from the stack.
ParseNode ==
    /\ mtNodes # <<>> /\ mtNodes' = Tail(mtNodes)
    /\ LET n == Head(mtNodes)  h == Len(mtStack)
       IN  mtStack' = IF n.op \notin {"AND", "OR"} THEN Append(mtStack, n)
                      ELSE Append(SubSeq(mtStack, 1, h - 2),
                                  Node(n.op, mtStack[h - 1], mtStack[h]))
    /\ UNCHANGED <<mtHeap, mtMsg, mtCopy, mtSnap, mtOps, mtSpec>>

\* The vm is the top of the stack.
vm == mtStack[Len(mtStack)]

ShortCircuit(op, b) == (b /\ op = "OR") \/ (~b /\ op = "AND")

\* evalMatcherSpecification, over leaves that are TRUE or FALSE.
RECURSIVE evalMatcherSpecification(_)
evalMatcherSpecification(t) ==
    IF "left" \notin DOMAIN t THEN t.op = "TRUE"
    ELSE LET b == evalMatcherSpecification(t.left)
         IN  IF ShortCircuit(t.op, b) THEN b ELSE evalMatcherSpecification(t.right)

\* The tests that the grammar has for Fields[name][fi][ai]: regular expressions only
\* with =~ and !~, a Boolean only with ==, NIL only with == and !=.
MtStmt(fi, ai, op, kind, v) == [fi |-> fi, ai |-> ai, op |-> op, kind |-> kind, v |-> v]
MtStatements ==
    {MtStmt(fi, ai, t[1], t[2], t[3]) : fi \in 0..1, ai \in 0..1, t \in
        ({"==", "!=", "<", ">="} \X {"number"} \X {0, 1})
        \cup ({"==", "!="} \X {"string"} \X {"a", "TRUE"})
        \cup ({"=~", "!~"} \X {"regexp"} \X {{"a"}})
        \cup ({"=="} \X {"boolean"} \X {"TRUE", "FALSE"})
        \cup ({"==", "!="} \X {"nil"} \X {"NIL"})}

\* stringTest; the token of the value TRUE is the string "TRUE".
stringTest(s, stmt) ==
    /\ stmt.kind # "number"
    /\ CASE stmt.op = "==" -> stmt.kind # "nil" /\ s = stmt.v
         [] stmt.op = "!=" -> stmt.kind = "nil" \/ s # stmt.v
         [] stmt.op = "=~" -> s \in stmt.v
         [] stmt.op = "!~" -> s \notin stmt.v

numericTest(n, stmt) ==
    /\ stmt.kind \in {"number", "nil"}
    /\ CASE stmt.op = "==" -> stmt.kind # "nil" /\ n = stmt.v
         [] stmt.op = "!=" -> stmt.kind = "nil" \/ n # stmt.v
         [] stmt.op = "<"  -> n < stmt.v
         [] stmt.op = ">=" -> n >= stmt.v

testNonExistence(stmt) == stmt.kind = "nil" /\ stmt.op = "=="

boolTest(b, stmt) ==
    IF stmt.kind = "nil" THEN stmt.op # "=="
    ELSE IF stmt.kind = "boolean" /\ stmt.v = "TRUE" THEN b ELSE ~b

FindAllFields(fs, name) == SelectSeq(fs, LAMBDA f : f.name = name)
\* FindFirstField; empty if there is none.
FindFirstField(fs, name) ==
    LET i == SelectInSeq(fs, LAMBDA f : f.name = name)
    IN  IF i = 0 THEN <<>> ELSE <<fs[i]>>

\* The field of the statement, if the message has it.
FieldOf(fs, name, stmt) ==
    IF stmt.fi # 0
    THEN LET all == FindAllFields(fs, name)
         IN  IF stmt.fi >= Len(all) THEN <<>> ELSE <<all[stmt.fi + 1]>>
    ELSE FindFirstField(fs, name)

\* testExpr, of a test on Fields.
testExpr(fs, name, stmt) ==
    LET found == FieldOf(fs, name, stmt)
        f == found[1]
        v == f.vals[stmt.ai + 1]
    IN  IF found = <<>> \/ stmt.ai >= Len(f.vals) THEN testNonExistence(stmt)
        ELSE CASE f.type \in {"STRING", "BYTES"} -> stringTest(v, stmt)
               [] f.type \in {"INTEGER", "DOUBLE"} -> numericTest(v, stmt)
               [] f.type = "BOOL" -> boolTest(v, stmt)

MtDone == (mtNodes = <<>> /\ mtSpec # <<>>) \/ mtOps = MtOps
MtNext ==
    \/ \E v \in MtValues : \/ \E n \in MtNames : NewField(n, v)
                           \/ \E f \in Range(Fields(mtMsg)) : AddValue(f, v)
    \/ \E f \in Range(Fields(mtMsg)) : MtDelete(f)
    \/ Copy \/ ParseNode
    \/ MtDone /\ UNCHANGED mtvars

MtSpec == MtInit /\ [][MtNext]_mtvars
------------------------------------------------------------------------------
(* Properties.                                                             *)

MtTypeOK ==
    /\ mtMsg.len \in 0..Len(mtMsg.arr) /\ mtOps \in 0..MtOps
    /\ \A k \in 1..mtMsg.len : mtMsg.arr[k] \in 1..Len(mtHeap)

\* A copied message stays what it was when it was copied, whatever is added to
\* the original, to its fields, or deleted from it (message.go:186-241, 434-474).
CopyIndependent == Contents(mtHeap, mtCopy) = mtSnap

\* The truth of an expression, by its definition.
RECURSIVE Holds(_)
Holds(t) ==
    CASE t.op = "AND" -> Holds(t.left) /\ Holds(t.right)
      [] t.op = "OR"  -> Holds(t.left) \/ Holds(t.right)
      [] OTHER -> t.op = "TRUE"

\* A compiled specification is true of a message exactly if its expression is; of
\* expressions that follow each other without an operator, which the grammar allows,
\* only the last counts (message_matcher_parser.y:96-97, message_matcher.go:48-69).
CompiledAsWritten ==
    mtSpec # <<>> /\ mtNodes = <<>> =>
        evalMatcherSpecification(vm) = Holds(mtSpec[Len(mtSpec)])

\* What the documentation says of a test on Fields[name][fi][ai].
Documented(fs, name, stmt) ==
    LET idx == {k \in DOMAIN fs : fs[k].name = name}
        at == {k \in idx : Cardinality({j \in idx : j < k}) = stmt.fi}
        f == fs[CHOOSE k \in at : TRUE]
        exists == at # {} /\ Len(f.vals) > stmt.ai
        v == f.vals[stmt.ai + 1]
    IN  IF stmt.kind = "nil" THEN exists <=> stmt.op = "!="
        ELSE /\ exists
             /\ CASE stmt.kind = "number" ->
                       /\ f.type \in {"INTEGER", "DOUBLE"}
                       /\ <<stmt.op, v - stmt.v>> \in
                            {<<"==", 0>>, <<"!=", 1>>, <<"!=", -1>>, <<"<", -1>>, <<">=", 0>>, <<">=", 1>>}
                  [] stmt.kind = "string" -> f.type \in {"STRING", "BYTES"} /\ (v = stmt.v <=> stmt.op = "==")
                  [] stmt.kind = "regexp" -> f.type \in {"STRING", "BYTES"} /\ (v \in stmt.v <=> stmt.op = "=~")
                  [] stmt.kind = "boolean" -> f.type = "BOOL" /\ (v <=> stmt.v = "TRUE")

BooleanMismatch(fs, name, stmt) ==
    LET found == FieldOf(fs, name, stmt)
    IN  /\ found # <<>> /\ stmt.kind # "nil"
        /\ \/ found[1].type = "BOOL" /\ stmt.kind # "boolean"
           \/ found[1].type \in {"STRING", "BYTES"} /\ stmt.kind = "boolean"

\* On every message that can be built a test finds the field and the value that its
\* indices name and compares them as documented, "If a field type is mis-match for
\* the relational comparison, false will be returned" (message_matcher.rst:74)
\* included; but a Boolean field that is false passes every test with a string, a
\* number or a regular expression, and a string "TRUE" is == TRUE.
TestsAsDocumented ==
    LET fs == Contents(mtHeap, Fields(mtMsg))
    IN  \A n \in MtNames, stmt \in MtStatements :
            \/ testExpr(fs, n, stmt) <=> Documented(fs, n, stmt)
            \/ BooleanMismatch(fs, n, stmt)

\* message_matcher.rst:74 without the exception: not so.
MismatchIsFalse ==
    LET fs == Contents(mtHeap, Fields(mtMsg))
    IN  \A n \in MtNames, stmt \in MtStatements :
            testExpr(fs, n, stmt) <=> Documented(fs, n, stmt)
=============================================================================
