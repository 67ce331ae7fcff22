------------------------------- MODULE Formula -------------------------------
(***************************************************************************)
(* The closed arithmetic of a strategy (domain/formula.py): what is        *)
(* accepted as a formula, what a monthly request adds to that              *)
(* (domain/monthly_signals.py), and its evaluation under a budget of       *)
(* primitive operations.  A formula is the tree that the parser builds of  *)
(* it; numbers are whole, so that a quotient is rounded to a whole number. *)
(***************************************************************************)
EXTENDS Integers, Sequences

CONSTANTS
  MaxNodes, MaxDepth,    \* of a tree: MAX_AST_NODES, MAX_AST_DEPTH
  MaxOperations,         \* MAX_OPERATIONS
  MaxWindow,             \* MAX_WINDOW
  Magnitude              \* of a number (1e100)

Leaves == {"number", "name", "delta", "compound", "other"}

Unary == {"positive", "negative"}

\* The operands of a node.
Children(node) ==
  IF node.op \in Leaves THEN {}
  ELSE IF node.op \in Unary THEN {node.operand} ELSE {node.left, node.right}

RECURSIVE Nodes(_), Depth(_), Names(_), Compounds(_), Closed(_)

\* What counts of a tree: operators, the context of a name and the function of a call are nodes too.
Nodes(node) ==
  CASE node.op = "number" -> 1
    [] node.op = "name" -> 2
    [] node.op = "delta" -> 5
    [] node.op = "compound" -> 6
    [] node.op = "other" -> 1
    [] node.op \in Unary -> 2 + Nodes(node.operand)
    [] OTHER -> 2 + Nodes(node.left) + Nodes(node.right)

Deeper(x, y) == IF x > y THEN x ELSE y

Depth(node) ==
  CASE node.op \in {"number", "other"} -> 0
    [] node.op = "name" -> 1
    [] node.op \in {"delta", "compound"} -> 2
    [] node.op \in Unary -> 1 + Depth(node.operand)
    [] OTHER -> 1 + Deeper(Depth(node.left), Depth(node.right))

\* The names of inputs, those within calls included.
Names(node) ==
  CASE node.op \in {"name", "delta", "compound"} -> {node.name}
    [] OTHER -> UNION {Names(c) : c \in Children(node)}

Compounds(node) ==
  IF node.op = "compound" THEN {node} ELSE UNION {Compounds(c) : c \in Children(node)}

Bounded(value) == value \in -Magnitude .. Magnitude

\* Only the allowed nodes, with literals within bounds and positive windows.
Closed(node) ==
  /\ node.op # "other"
  /\ node.op = "number" => Bounded(node.value)
  /\ node.op = "compound" => node.window \in 1 .. MaxWindow
  /\ \A c \in Children(node) : Closed(c)

\* parse_formula(); the tree has a root above its expression.
Parses(node) == Closed(node) /\ Nodes(node) + 1 <= MaxNodes /\ Depth(node) + 1 <= MaxDepth

RECURSIVE Deltas(_)
Deltas(node) == IF node.op = "delta" THEN {node} ELSE UNION {Deltas(c) : c \in Children(node)}

\* closed_monthly_formula(): the names are the bindings, nothing is annual, and what is compounded
\* are returns with enough history.
MonthlyFormula(node, bindings) ==
  LET Binding(name) == CHOOSE b \in bindings : b.name = name IN
  /\ Parses(node)
  /\ Names(node) = {b.name : b \in bindings}
  /\ Deltas(node) = {}
  /\ \A call \in Compounds(node) :
       /\ Binding(call.name).context = "return"
       /\ Binding(call.name).history >= call.window

-----------------------------------------------------------------------------
(* _Evaluator: a value or a failure, and the operations charged so far *)

Known(value, used) == [failure |-> "none", value |-> value, used |-> used]
Fails(code, used) == [failure |-> code, value |-> 0, used |-> used]

\* Every primitive operation is charged before it is made, and its result has to be within bounds.
Operation(op, left, right, used) ==
  LET result == CASE op = "+" -> left + right
                  [] op = "-" -> left - right
                  [] op = "*" -> left * right
                  [] op = "/" -> left \div right
  IN IF used + 1 > MaxOperations THEN Fails("FORMULA_LIMIT", used + 1)
     ELSE IF op = "/" /\ right = 0 THEN Fails("FORMULA_ZERO_DIVISION", used + 1)
     ELSE IF ~Bounded(result) THEN Fails("FORMULA_NUMERIC", used + 1)
     ELSE Known(result, used + 1)

\* The last values of a series, compounded: an addition and a multiplication each.
RECURSIVE Compound(_, _)
Compound(values, start) ==
  IF values = <<>> \/ start.failure # "none" THEN start
  ELSE LET gross == Operation("+", 1, Head(values), start.used) IN
       IF gross.failure # "none" THEN gross
       ELSE Compound(Tail(values), Operation("*", start.value, gross.value, gross.used))

\* The slip of compounding the first observations.
WindowFromStart(values, n) == SubSeq(values, 1, n)

Window(values, n) == SubSeq(values, Len(values) - n + 1, Len(values))

RECURSIVE Visit(_, _, _)
Visit(node, inputs, used) ==
  CASE node.op = "number" -> Known(node.value, used)
    [] node.op = "name" ->
         IF node.name \in DOMAIN inputs.scalars THEN Known(inputs.scalars[node.name], used)
         ELSE Fails("FORMULA_INPUT", used)
    [] node.op = "delta" ->
         IF node.name \in DOMAIN inputs.deltas
         THEN Operation("-", inputs.deltas[node.name][2], inputs.deltas[node.name][1], used)
         ELSE Fails("FORMULA_INPUT", used)
    [] node.op = "compound" ->
         IF \/ node.name \notin DOMAIN inputs.series
            \/ Len(inputs.series[node.name]) < node.window
         THEN Fails("FORMULA_INPUT", used)
         ELSE LET product == Compound(Window(inputs.series[node.name], node.window), Known(1, used))
              IN IF product.failure # "none" THEN product
                 ELSE Operation("-", product.value, 1, product.used)
    [] node.op \in Unary ->
         LET operand == Visit(node.operand, inputs, used) IN
         IF operand.failure # "none" THEN operand
         ELSE Operation(IF node.op = "negative" THEN "-" ELSE "+", 0, operand.value, operand.used)
    [] OTHER ->
         LET left == Visit(node.left, inputs, used) IN
         IF left.failure # "none" THEN left
         ELSE LET right == Visit(node.right, inputs, left.used) IN
              IF right.failure # "none" THEN right
              ELSE Operation(node.op, left.value, right.value, right.used)

\* _inputs() and evaluate_formula(): inputs that are not used count as well.  The three codes of
\* parse_formula() for an expression that is too long, has a bad number or does not parse are one
\* here: a node that Parses refuses, for whichever reason.
EvaluateFormula(node, inputs) ==
  IF ~Parses(node) THEN Fails("FORMULA_SYNTAX", 0)
  ELSE IF \E group \in {inputs.series, inputs.deltas} :
            \E name \in DOMAIN group : \E i \in DOMAIN group[name] : ~Bounded(group[name][i])
  THEN Fails("FORMULA_INPUT", 0)
  ELSE IF \E name \in DOMAIN inputs.scalars : ~Bounded(inputs.scalars[name])
  THEN Fails("FORMULA_INPUT", 0)
  ELSE Visit(node, inputs, 0)

\* A complete history is both the series of its binding and, with its last value, the scalar.
MonthlyInputs(histories) ==
  [scalars |-> [b \in DOMAIN histories |-> histories[b][Len(histories[b])]],
   series |-> histories, deltas |-> <<>>]
=============================================================================
