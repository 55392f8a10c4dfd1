----------------------------- MODULE Operators -----------------------------
(***************************************************************************)
(* The table of operators, src/clvm/operators.py and op_utils.py: which    *)
(* atom stands for which function.  It is made from the functions that two *)
(* modules happen to define, by their names; a keyword without a function  *)
(* is skipped, and its atom is an unknown operator.                        *)
(***************************************************************************)
EXTENDS MoreOps, UnknownOps

\* opcodes 0x00 to 0x24
KEYWORDS == << ".", "q", "a", "i", "c", "f", "r", "l", "x",
               "=", ">s", "sha256", "substr", "strlen", "concat", ".",
               "+", "-", "*", "/", "divmod", ">", "ash", "lsh",
               "logand", "logior", "logxor", "lognot", ".",
               "point_add", "pubkey_for_exp", ".",
               "not", "any", "all", ".",
               "softfork" >>

\* a keyword that stands at several places has the last of them
KEYWORD_TO_ATOM ==
    [k \in Range(KEYWORDS) |->
        int_to_bytes(Max({ i \in DOMAIN KEYWORDS : KEYWORDS[i] = k }) - 1)]

\* the functions that are not called as their keyword is, without their op_
OP_REWRITE ==
    "+" :> "add" @@ "-" :> "subtract" @@ "*" :> "multiply" @@ "/" :> "div"
    @@ "i" :> "if" @@ "c" :> "cons" @@ "f" :> "first" @@ "r" :> "rest" @@ "l" :> "listp"
    @@ "x" :> "raise" @@ "=" :> "eq" @@ ">" :> "gr" @@ ">s" :> "gr_bytes"

\* the functions op_<name> of core_ops and more_ops
Functions ==
    {"if", "cons", "first", "rest", "listp", "raise", "eq"}
    \cup {"sha256", "add", "subtract", "multiply", "divmod", "div", "gr", "gr_bytes",
          "pubkey_for_exp", "point_add", "strlen", "substr", "concat", "ash", "lsh",
          "logand", "logior", "logxor", "lognot", "not", "any", "all", "softfork"}

\* the name that a keyword is looked up by
NameOf(k) == IF k \in DOMAIN OP_REWRITE THEN OP_REWRITE[k] ELSE k

\* operators_for_module, of both modules: atom |-> name of the function
OPERATOR_LOOKUP ==
    [op \in { KEYWORD_TO_ATOM[k] : k \in { k \in Range(KEYWORDS) : NameOf(k) \in Functions } } |->
        NameOf(CHOOSE k \in Range(KEYWORDS) : KEYWORD_TO_ATOM[k] = op)]

QUOTE_ATOM == KEYWORD_TO_ATOM["q"]
APPLY_ATOM == KEYWORD_TO_ATOM["a"]

\* the function of this name, on the operands x
CallFunction(name, x) ==
    CASE name = "if"     -> op_if(x)       [] name = "cons"     -> op_cons(x)
      [] name = "first"  -> op_first(x)    [] name = "rest"     -> op_rest(x)
      [] name = "listp"  -> op_listp(x)    [] name = "raise"    -> op_raise(x)
      [] name = "eq"     -> op_eq(x)       [] name = "sha256"   -> op_sha256(x)
      [] name = "add"    -> op_add(x)      [] name = "subtract" -> op_subtract(x)
      [] name = "divmod" -> op_divmod(x)   [] name = "multiply" -> op_multiply(x)
      [] name = "div"    -> op_div(x)      [] name = "gr"       -> op_gr(x)
      [] name = "strlen" -> op_strlen(x)   [] name = "gr_bytes" -> op_gr_bytes(x)
      [] name = "substr" -> op_substr(x)   [] name = "concat"   -> op_concat(x)
      [] name = "ash"    -> op_ash(x)      [] name = "lsh"      -> op_lsh(x)
      [] name = "logand" -> op_logand(x)   [] name = "logior"   -> op_logior(x)
      [] name = "logxor" -> op_logxor(x)   [] name = "lognot"   -> op_lognot(x)
      [] name = "not"    -> op_not(x)      [] name = "any"      -> op_any(x)
      [] name = "all"    -> op_all(x)      [] name = "softfork" -> op_softfork(x)
      [] name = "point_add"      -> op_point_add(x)
      [] name = "pubkey_for_exp" -> op_pubkey_for_exp(x)

\* OperatorDict.__call__
Operate(op, x) == IF op \in DOMAIN OPERATOR_LOOKUP THEN CallFunction(OPERATOR_LOOKUP[op], x)
                  ELSE default_unknown_op(op, x)
=============================================================================
