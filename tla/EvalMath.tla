------------------------------ MODULE EvalMath ------------------------------
(***************************************************************************)
(* The arithmetic of fwup.conf (eval_math.c): two stacks, one of arguments *)
(* and one of operators, filled from left to right.  A token is a number,  *)
(* an operator, a parenthesis or a suffix.  Tokens follow each other       *)
(* without white space, but for a blank between two numbers.  How numbers  *)
(* are spelled apart from their sign, the overflow of int64_t and more     *)
(* operators than fit on their stack are left out.                         *)
(***************************************************************************)
EXTENDS Integers, Sequences

CONSTANT StackSize    \* EVAL_STACK_SIZE, 16
ASSUME EvalAssumption == StackSize \in Nat \ {0}

Value == [t \in {"1", "2"} |-> IF t = "1" THEN 1 ELSE 2]  \* strtoll
BinaryPrec == [t \in {"+", "-", "*", "/", "^"} |->
                 CASE t \in {"+", "-"} -> 2 [] t \in {"*", "/"} -> 3 [] OTHER -> 4]
Multiplier == [t \in {"c", "w", "b", "K"} |-> CASE t = "c" -> 1 [] t = "w" -> 2 [] t = "b" -> 512 [] OTHER -> 1024]
RightAssoc == {"^", "neg"}
Prec(op) == IF op = "(" THEN 1 ELSE IF op = "neg" THEN 4 ELSE BinaryPrec[op]

\* C's division: towards zero.
Quotient(a, b) == LET abs(n) == IF n < 0 THEN -n ELSE n
                      q == abs(a) \div abs(b)
                  IN  IF (a < 0) = (b < 0) THEN q ELSE -q

\* The parser: args and ops are the stacks; next is what it looks for, "digits"
\* behind the sign of a number.  A state with ok = FALSE is an error and stays one.
Start == [args |-> <<>>, ops |-> <<>>, next |-> "number", ok |-> TRUE]
Bad(s) == [s EXCEPT !.ok = FALSE]
Top(q) == q[Len(q)]
Pop(q) == SubSeq(q, 1, Len(q) - 1)

\* do_add ... do_power on the two last arguments, do_unary_minus on the last.
Swapped(op, a, b) ==                    \* variant: subtracts the wrong way round
  CASE op = "+" -> a + b [] op = "-" -> b - a [] op = "*" -> a * b
    [] op = "/" -> Quotient(a, b) [] OTHER -> a ^ b
Compute(op, a, b) ==
  CASE op = "+" -> a + b [] op = "-" -> a - b [] op = "*" -> a * b
    [] op = "/" -> Quotient(a, b) [] OTHER -> a ^ b
Defined(op, a, b) == (op = "/" => b # 0) /\ (op = "^" => b >= 0 /\ b <= 63)
pop_operator(s) ==
  LET n == Len(s.args)
      op == Top(s.ops)
      rest == [s EXCEPT !.ops = Pop(@)]
  IN  IF s.ops = <<>> THEN Bad(s) ELSE IF op = "(" THEN Bad(s)
      ELSE IF op = "neg" THEN IF n < 1 THEN Bad(s) ELSE [rest EXCEPT !.args[n] = -@]
      ELSE IF n < 2 THEN Bad(s) ELSE IF ~Defined(op, s.args[n - 1], s.args[n]) THEN Bad(s)
      ELSE [rest EXCEPT !.args = Pop(Pop(@)) \o <<Compute(op, s.args[n - 1], s.args[n])>>]

\* Operators leave the stack as long as the new one does not bind tighter (or,
\* if it associates to the right, as tightly).
BindsTighter(op, top) == IF op \in RightAssoc THEN Prec(op) >= Prec(top) ELSE Prec(op) > Prec(top)
RECURSIVE push_operator(_, _)
push_operator(s, op) ==
  IF ~s.ok THEN s
  ELSE IF s.ops = <<>> THEN [s EXCEPT !.ops = <<op>>]
  ELSE IF BindsTighter(op, Top(s.ops)) THEN [s EXCEPT !.ops = Append(@, op)]
  ELSE push_operator(pop_operator(s), op)

handle_left_paren(s) == IF Len(s.ops) >= StackSize THEN Bad(s) ELSE [s EXCEPT !.ops = Append(@, "(")]
RECURSIVE handle_right_paren(_)
handle_right_paren(s) ==
  IF ~s.ok \/ s.ops = <<>> THEN Bad(s)
  ELSE IF Top(s.ops) = "(" THEN [s EXCEPT !.ops = Pop(@)]
  ELSE handle_right_paren(pop_operator(s))
handle_suffix(s, m) == IF s.args = <<>> THEN Bad(s) ELSE [s EXCEPT !.args[Len(s.args)] = @ * m]

\* parse_whitespace_before_number and parse_number, whose strtoll reads a "+" as
\* the sign of the number right behind it; parse_operator.
parse_number(s, t) ==
  IF t \notin DOMAIN Value \/ Len(s.args) >= StackSize THEN Bad(s)
  ELSE [s EXCEPT !.args = Append(@, Value[t]), !.next = "operator"]
BeforeNumber(s, t) ==
  CASE t = "(" -> handle_left_paren(s)
    [] t = ")" -> handle_right_paren(s)
    [] t = "-" -> push_operator(s, "neg")
    [] t = "+" -> [s EXCEPT !.next = "digits"]
    [] OTHER -> parse_number(s, t)
parse_operator(s, t) ==
  CASE t \in DOMAIN BinaryPrec -> [push_operator(s, t) EXCEPT !.next = "number"]
    [] t = "(" -> handle_left_paren(s)
    [] t = ")" -> handle_right_paren(s)
    [] t \in DOMAIN Multiplier -> handle_suffix(s, Multiplier[t])
    [] OTHER -> Bad(s)

\* eval_math: the result, or an error.
Exactly(n) == [defined |-> TRUE, value |-> n]
Undefined == [defined |-> FALSE, value |-> 0]
RECURSIVE Drain(_)
Drain(s) == IF s.ok /\ s.ops # <<>> THEN Drain(pop_operator(s)) ELSE s
Token(s, t) == CASE s.next = "number" -> BeforeNumber(s, t)
                 [] s.next = "digits" -> parse_number(s, t)
                 [] s.next = "operator" -> parse_operator(s, t)
RECURSIVE Parse(_, _)
Parse(s, toks) == IF ~s.ok THEN s
                  ELSE IF toks = <<>> THEN IF s.next = "digits" THEN Bad(s) ELSE s
                  ELSE Parse(Token(s, Head(toks)), Tail(toks))
eval_math(toks) == LET s == Drain(Parse(Start, toks))
                   IN  IF s.ok /\ Len(s.args) = 1 THEN Exactly(s.args[1]) ELSE Undefined

----------------------------------------------------------------------------
(* What an expression means: the value of a token sequence by the grammar  *)
(*   sum ::= product (("+" | "-") product)*                                *)
(*   product ::= factor (("*" | "/") factor)*                              *)
(*   factor ::= "-" factor | atom ["^" factor]                             *)
(*   atom ::= (["+"] number | "(" sum ")") suffix*                         *)
(* as the set of its values: empty if it is not an expression, Undefined   *)
(* if a division or a power is not defined.                                *)
Means(op, as, bs) ==
  {IF a.defined /\ b.defined /\ Defined(op, a.value, b.value)
   THEN Exactly(CASE op = "+" -> a.value + b.value [] op = "-" -> a.value - b.value
                  [] op = "*" -> a.value * b.value [] op = "^" -> a.value ^ b.value
                  [] OTHER -> Quotient(a.value, b.value))
   ELSE Undefined : a \in as, b \in bs}
Front(toks, i) == SubSeq(toks, 1, i - 1)
Back(toks, i) == SubSeq(toks, i + 1, Len(toks))
At(toks, ops) == {i \in 2 .. Len(toks) - 1 : toks[i] \in ops}
RECURSIVE Sum(_), Product(_), Factor(_), Atom(_)
Sum(ts) == Product(ts) \cup
           UNION {Means(ts[i], Sum(Front(ts, i)), Product(Back(ts, i))) : i \in At(ts, {"+", "-"})}
Product(ts) == Factor(ts) \cup
               UNION {Means(ts[i], Product(Front(ts, i)), Factor(Back(ts, i))) : i \in At(ts, {"*", "/"})}
Factor(ts) == Atom(ts) \cup
              (IF Len(ts) > 1 /\ ts[1] = "-" THEN Means("-", {Exactly(0)}, Factor(Tail(ts))) ELSE {}) \cup
              UNION {Means("^", Atom(Front(ts, i)), Factor(Back(ts, i))) : i \in At(ts, {"^"})}
Atom(ts) ==
  IF ts = <<>> THEN {}
  ELSE IF Len(ts) = 1 THEN IF ts[1] \in DOMAIN Value THEN {Exactly(Value[ts[1]])} ELSE {}
  ELSE IF Len(ts) = 2 /\ ts[1] = "+" /\ ts[2] \in DOMAIN Value THEN {Exactly(Value[ts[2]])}
  ELSE IF Top(ts) \in DOMAIN Multiplier THEN Means("*", Atom(Pop(ts)), {Exactly(Multiplier[Top(ts)])})
  ELSE IF ts[1] = "(" /\ Top(ts) = ")" THEN Sum(SubSeq(ts, 2, Len(ts) - 1)) ELSE {}
=============================================================================
