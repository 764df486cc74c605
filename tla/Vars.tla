------------------------------- MODULE Vars -------------------------------
(***************************************************************************)
(* The variables of src/filebench/vars.c and the attributes that refer to  *)
(* them: what the set commands of a script store, what an attribute that   *)
(* was bound before or after reads, and how the local variables of         *)
(* composite flowops hand values from an invocation to the inner flowops   *)
(* (the parts of parser_gram.y that drive it included).                    *)
(*                                                                         *)
(* A pointer to a variable is its index in var, 0 is NULL.  The value of a *)
(* variable is a C union: it is kept with the member that was stored last. *)
(* The commands of one script run one after the other; every script of at  *)
(* most MaxCmds commands is a behaviour.                                   *)
(***************************************************************************)
EXTENDS Integers, Sequences, SequencesExt

CONSTANTS
  Names,      \* names of the global variables
  Word,       \* 2^64: fbint_t is unsigned
  Ints,       \* the integers that scripts use
  Strs,       \* the strings, as numbers
  Exprs,      \* what scripts put after the first operand: sequences of terms
  MaxCmds,    \* bound: commands of a script
  LocalIn,    \* the local variable of the inner composite
  LocalOut    \* the local variable of the outer composite

\* An operator and the operand that follows it.
Term == [op : {"sum", "dif", "mul", "div"}, k : {"int"}, x : Ints]
          \cup [op : {"sum", "dif", "mul", "div"}, k : {"var"}, x : Names]

ASSUME VarsAssumption ==
  /\ Word \in Nat \ {0} /\ Ints \subseteq 0..(Word - 1) /\ Strs \subseteq Nat
  /\ \A e \in Exprs : e \in Seq(Term) /\ e # <<>>
  /\ MaxCmds \in Nat /\ LocalOut \notin Names

NULL == 0

\* Results that are no numbers of the script.
CRASH == -1       \* the process dies: division by zero, endless recursion, wild pointer
UNKNOWN == -2     \* some number: a random one, or bytes of another type
ODD == -3         \* nothing is said of this value

VARIABLES
  var,              \* all variables, in the order they were allocated
  shm_var_loc_list, \* the shared list of local variables
  attrs,            \* attributes of plain flowops and filesets
  def,              \* the two composite flowops, once defined
  pending,          \* flowops of a process that are parsed and not yet defined
  executing,        \* a process is being defined
  insts,            \* inner attributes of the composites' instances
  cmds,             \* commands so far
  meaning, sticky   \* what the script has said: see Meaning below

vars == <<var, shm_var_loc_list, attrs, def, pending, executing, insts, cmds, meaning, sticky>>

-----------------------------------------------------------------------------
(* Variables: var_t and the macros of vars.h.                              *)

IND_BINOP_INT == 1
IND_BINOP_VAR == 3

\* var_alloc_cmn().
Fresh(name, scope) ==
  [name |-> name, scope |-> scope, set |-> "none", binop |-> 0, op |-> "assign",
   member |-> "int", val |-> 0, ptr1 |-> NULL]

\* VAR_SET_BOOL, VAR_SET_INT, VAR_SET_STR and VAR_SET_RAND.  The bits of an
\* earlier operation stay.
VAR_SET(v, type, x) == [v EXCEPT !.set = type, !.member = type, !.val = x]

VAR_SET_INDVAR(v, p) == [v EXCEPT !.set = "ind", !.op = "assign", !.ptr1 = p]

\* As VAR_SET_BINOP_INDVAR would be if it kept the old operator.
VAR_SET_BINOP_INDVAR_Stale(v, p, binop, op) ==
  [v EXCEPT !.set = "ind", !.op = IF @ = "assign" THEN op ELSE @,
            !.binop = IF @ = IND_BINOP_VAR THEN @ ELSE binop, !.ptr1 = p]

\* The operator is replaced, the bits that say what the second operand is are
\* only added to.
VAR_SET_BINOP_INDVAR(v, p, binop, op) ==
  [v EXCEPT !.set = "ind", !.op = op,
            !.binop = IF @ = IND_BINOP_VAR THEN @ ELSE binop, !.ptr1 = p]

VAR_HAS_INDVAR(v) == v.set = "ind" /\ v.binop = 0

VAR_HAS_BINOP(v) == v.set = "ind" /\ v.binop # 0

\* A member of the union.
Member(v, m) == IF v.member = m THEN v.val ELSE UNKNOWN

\* var_find_list_only().
var_find_list_only(h, name, list) ==
  LET found == SelectSeq(list, LAMBDA p : h[p].name = name)
  IN  IF found = <<>> THEN NULL ELSE Head(found)

\* shm_var_list: the variables that are not local.
GlobalList(h) == SelectSeq([p \in DOMAIN h |-> p], LAMBDA p : h[p].scope # "local")

\* var_find(): the local variables first.
var_find(h, loc, name) == var_find_list_only(h, name, loc \o GlobalList(h))

\* var_find_alloc(): the heap with a variable of that name.
var_find_alloc(h, loc, name) ==
  IF var_find(h, loc, name) = NULL THEN Append(h, Fresh(name, "global")) ELSE h

-----------------------------------------------------------------------------
(* Reading variables and attributes.                                       *)

Binary(op, x, y) ==
  IF CRASH \in {x, y} \/ (op = "div" /\ y = 0) \/ (op = "rdiv" /\ x = 0) THEN CRASH
  ELSE IF UNKNOWN \in {x, y} THEN UNKNOWN
  ELSE CASE op = "sum" -> (x + y) % Word
         [] op = "dif" -> (x - y) % Word
         [] op = "rdif" -> (y - x) % Word
         [] op = "mul" -> (x * y) % Word
         [] op = "div" -> x \div y
         [] op = "rdiv" -> y \div x

\* var_get_int() and var_binary_integer_op(); a recursion that is deeper than
\* there are variables does not end.
RECURSIVE var_get_int(_, _, _)
var_get_int(h, p, depth) ==
  LET v == h[p]
      src2 == IF v.binop = IND_BINOP_INT THEN Member(v, "int")
              ELSE IF v.val = NULL THEN 0
              ELSE IF v.member = "ptr" THEN var_get_int(h, v.val, depth - 1) ELSE CRASH
  IN  CASE depth = 0 -> CRASH
        [] depth > 0 /\ v.set = "int" -> v.val
        [] depth > 0 /\ v.set = "rand" -> UNKNOWN
        [] depth > 0 /\ VAR_HAS_BINOP(v) -> Binary(v.op, var_get_int(h, v.ptr1, depth - 1), src2)
        [] OTHER -> 0

GetInt(h, p) == var_get_int(h, p, Len(h) + 1)

\* avd_alloc_var_ptr(): an attribute points into the variable it was bound to,
\* as a value of the type the variable had, or to the variable.
avd_alloc_var_ptr(h, p) ==
  LET v == h[p]
  IN  CASE v.set \in {"bool", "int", "str"} -> [type |-> v.set, ptr |-> p]
        [] v.set = "rand" -> [type |-> "rand", ptr |-> v.val]
        [] v.set = "ind" -> [type |-> "var", ptr |-> IF v.op = "assign" THEN v.ptr1 ELSE p]
        [] v.set = "none" -> [type |-> "var", ptr |-> p]

avd_get_int(h, avd) ==
  CASE avd.type = "int" -> Member(h[avd.ptr], "int")
    [] avd.type = "var" -> GetInt(h, avd.ptr)
    [] avd.type = "rand" -> UNKNOWN
    [] OTHER -> 0

\* avd_get_bool() and var_get_bool().
avd_get_bool(h, avd) ==
  LET v == h[avd.ptr]
      True(x) == IF x = 0 THEN 0 ELSE IF x < 0 THEN x ELSE 1
  IN  CASE avd.type \in {"bool", "int"} -> True(Member(v, avd.type))
        [] avd.type = "var" /\ v.set \in {"bool", "int"} -> True(v.val)
        [] OTHER -> 0

avd_get_str(h, avd) ==
  CASE avd.type = "str" -> Member(h[avd.ptr], "str")
    [] avd.type = "var" /\ h[avd.ptr].set = "str" -> h[avd.ptr].val
    [] OTHER -> NULL

-----------------------------------------------------------------------------
(* Meaning.  What the script has set each variable to: a value, or an      *)
(* expression over other variables that is evaluated when it is used.      *)
(* Three commands do less than one might read into them, and mean what     *)
(* they do.  Setting a variable from one that holds an expression or is    *)
(* random has no effect.  Of an expression with several operators only the *)
(* last one counts, applied to the first operand and the last.  And an     *)
(* operation with a constant on a variable that has had one with a         *)
(* variable before (is sticky) takes the constant for a pointer: "wild".   *)

Unset == [k |-> "unset"]

RECURSIVE Value(_, _)
Value(n, depth) ==
  LET e == meaning[n]
  IN  CASE depth = 0 -> CRASH
        [] depth > 0 /\ e.k = "int" -> e.v
        [] depth > 0 /\ e.k = "rand" -> UNKNOWN
        [] depth > 0 /\ e.k = "op" -> Binary(e.op, Value(e.src, depth - 1), e.c)
        [] depth > 0 /\ e.k = "opv" -> Binary(e.op, Value(e.src, depth - 1),
                                              Value(e.src2, depth - 1))
        [] depth > 0 /\ e.k = "wild" -> Binary(e.op, Value(e.src, depth - 1),
                                               IF e.c = NULL THEN 0 ELSE CRASH)
        [] OTHER -> 0

\* Deeper than a chain of distinct names.
ValueOf(n) == Value(n, Len(var) + 1)

Init ==
  /\ var = <<>> /\ shm_var_loc_list = <<>>
  /\ attrs = <<>> /\ insts = <<>> /\ pending = <<>> /\ executing = FALSE
  /\ def = [c \in {} |-> NULL]
  /\ cmds = 0
  /\ meaning = [n \in Names |-> Unset] /\ sticky = {}

Command == cmds < MaxCmds /\ ~executing /\ cmds' = cmds + 1

-----------------------------------------------------------------------------
(* The set and define randvar commands.                                    *)

Idle == Command /\ pending = <<>>

compVars == <<attrs, def, pending, executing, insts, shm_var_loc_list>>

IsRandom(n) == \E p \in DOMAIN var : var[p].name = n /\ var[p].scope = "random"

Exists(n) == var_find(var, shm_var_loc_list, n) # NULL

\* var_assign_integer(), var_assign_boolean(), var_assign_string(): a random
\* variable is left alone.
SetValue(n, type, x) ==
  LET h == var_find_alloc(var, shm_var_loc_list, n)
      p == var_find(h, shm_var_loc_list, n)
  IN  /\ Idle
      /\ IF h[p].scope = "random" THEN UNCHANGED <<var, meaning>>
         ELSE /\ var' = [h EXCEPT ![p] = VAR_SET(@, type, x)]
              /\ meaning' = [meaning EXCEPT ![n] = [k |-> type, v |-> x]]
      /\ UNCHANGED <<compVars, sticky>>

\* var_copy(): an operation or a random source changes nothing.
var_copy(h, d, s) ==
  CASE h[s].set \in {"bool", "int", "str"} -> VAR_SET(h[d], h[s].set, h[s].val)
    [] VAR_HAS_INDVAR(h[s]) -> VAR_SET_INDVAR(h[d], h[s].ptr1)
    [] OTHER -> h[d]

\* var_assign_var().
var_assign_var(h, loc, name, src) ==
  LET s == var_find(h, loc, src)
      g == var_find_alloc(h, loc, name)
      d == var_find(g, loc, name)
  IN  IF s = NULL THEN h
      ELSE IF g[d].scope = "random" THEN g
      ELSE [g EXCEPT ![d] = var_copy(g, d, s)]

\* What $n means once $m has been assigned to it.
Assigned(n, m) ==
  IF Exists(m) /\ ~IsRandom(n) /\ meaning[m].k \in {"int", "bool", "str"}
  THEN meaning[m] ELSE meaning[n]

\* set $n = $m.  The parser assigns when it has read the command and the command
\* assigns again.
SetVar(n, m) ==
  LET h == var_assign_var(var, shm_var_loc_list, n, m)
  IN  /\ Idle
      /\ var' = var_assign_var(h, shm_var_loc_list, n, m)
      /\ meaning' = [meaning EXCEPT ![n] = Assigned(n, m)]
      /\ UNCHANGED <<compVars, sticky>>

\* var_assign_op_var_int() and var_assign_op_var_var().
var_assign_op(h, loc, name, op, src, binop, member, second) ==
  LET s == var_find(h, loc, src)
      g == var_find_alloc(h, loc, name)
      d == var_find(g, loc, name)
  IN  IF g[d].scope = "random" THEN g
      ELSE [g EXCEPT ![d] = [VAR_SET_BINOP_INDVAR(@, s, binop, op)
                               EXCEPT !.member = member, !.val = second]]

\* The operation of $n on the variable m and the constant c.
OpInt(h, n, op, m, c) ==
  /\ var' = var_assign_op(h, shm_var_loc_list, n, op, m, IND_BINOP_INT, "int", c)
  /\ meaning' = [meaning EXCEPT ![n] =
                   IF IsRandom(n) THEN @
                   ELSE [k |-> IF n \in sticky THEN "wild" ELSE "op", op |-> op, src |-> m,
                         c |-> c]]
  /\ UNCHANGED sticky

\* The operation of $n on the variables m and o.
OpVar(h, n, op, m, o) ==
  /\ var' = var_assign_op(h, shm_var_loc_list, n, op, m, IND_BINOP_VAR, "ptr",
                          var_find(h, shm_var_loc_list, o))
  /\ IF IsRandom(n) THEN UNCHANGED <<meaning, sticky>>
     ELSE /\ meaning' = [meaning EXCEPT ![n] = [k |-> "opv", op |-> op, src |-> m, src2 |-> o]]
          /\ sticky' = sticky \cup {n}

\* set $n = $m op x op x ...  When it has read $m the parser assigns $m to $n,
\* which stands if the operation comes to nothing because a variable of it does
\* not exist.  Each term then replaces operator and operand of the one before.
SetExpr(n, m, terms) ==
  LET h == var_assign_var(var, shm_var_loc_list, n, m)
      t == Last(terms)
  IN  /\ Idle
      /\ CASE ~Exists(m) \/ (t.k = "var" /\ var_find(h, shm_var_loc_list, t.x) = NULL) ->
                  var' = h /\ meaning' = [meaning EXCEPT ![n] = Assigned(n, m)]
                           /\ UNCHANGED sticky
           [] Exists(m) /\ t.k = "int" -> OpInt(h, n, t.op, m, t.x)
           [] OTHER -> OpVar(h, n, t.op, m, t.x)
      /\ UNCHANGED compVars

\* An operator whose constant comes first.
Reversed(op) == CASE op = "dif" -> "rdif" [] op = "div" -> "rdiv" [] OTHER -> op

\* set $n = c op x.  With a second constant the parser computes and assigns; on a
\* second operator the program dies, as no variable has come first.
SetIntExpr(n, c, t) ==
  IF t.k = "int" THEN (t.op = "div" => t.x # 0) /\ SetValue(n, "int", Binary(t.op, c, t.x))
  ELSE /\ Idle
       /\ IF Exists(t.x) THEN OpInt(var, n, Reversed(t.op), t.x, c)
          ELSE UNCHANGED <<var, meaning, sticky>>
       /\ UNCHANGED compVars

\* var_define_randvar(): only under a new name.
DefineRand(n) ==
  /\ Idle
  /\ IF Exists(n) THEN UNCHANGED <<var, meaning>>
     ELSE /\ var' = Append(var, VAR_SET(Fresh(n, "random"), "rand", Len(var) + 1))
          /\ meaning' = [meaning EXCEPT ![n] = [k |-> "rand"]]
  /\ UNCHANGED <<compVars, sticky>>

\* An attribute of a fileset or a plain flowop, outside of or among the flowops
\* of a process: var_ref_attr().
RefAttr(n) ==
  LET h == var_find_alloc(var, shm_var_loc_list, n)
      p == var_find(h, shm_var_loc_list, n)
  IN  /\ Command
      /\ var' = h
      /\ attrs' = Append(attrs, [name |-> n, avd |-> avd_alloc_var_ptr(h, p),
                                 k |-> meaning[n].k, local |-> h[p].scope = "local"])
      /\ UNCHANGED <<def, pending, executing, insts, shm_var_loc_list, meaning, sticky>>

-----------------------------------------------------------------------------
(* Local variables of composite flowops.  The composite "in" has the local *)
(* variable l and an inner flowop with an attribute that refers to it; the *)
(* composite "out" has m and an inner invocation of "in", which may pass m *)
(* on.                                                                     *)

\* What a definition or an invocation says of a local variable.
NoArg == [k |-> "none"]
Args == {NoArg, [k |-> "bare"]} \cup [k : {"int"}, v : Ints] \cup [k : {"var"}, n : Names]
InnerArgs == Args \cup {[k |-> "var", n |-> LocalOut]}

\* var_lvar_assign_integer(), var_lvar_assign_var() or var_lvar_alloc_local():
\* the heap with the new local variable.  If the source is not found there is
\* none, which goes unnoticed.
NewLocal(h, loc, name, arg) ==
  LET f == Fresh(name, "local")
      s == var_find(h, loc, arg.n)
  IN  CASE arg.k = "none" -> h
        [] arg.k = "bare" -> Append(h, f)
        [] arg.k = "int" -> Append(h, VAR_SET(f, "int", arg.v))
        [] arg.k = "var" /\ s = NULL -> h
        [] arg.k = "var" /\ s # NULL ->
             Append(h, IF h[s].scope = "local" THEN VAR_SET_INDVAR(f, s)
                       ELSE IF h[s].set \in {"bool", "int", "str", "rand"}
                       THEN VAR_SET(f, h[s].set, h[s].val)
                       ELSE f)

\* The variable that h2 has and h1 has not, as a list.
Added(h1, h2) == IF Len(h2) > Len(h1) THEN <<Len(h2)>> ELSE <<>>

\* The pending invocation whose local variable p is.
Owner(p) == CHOOSE i \in DOMAIN pending : p \in ToSet(pending[i].lvars)

\* What an argument means: a number, or nothing.  A name is first that of a local
\* variable of an earlier invocation in the same process, whose value it then
\* stands for, unless that stands for another one's in turn.
ArgValue(arg) ==
  LET s == var_find(var, shm_var_loc_list, arg.n)
  IN  CASE arg.k = "int" -> arg.v
        [] arg.k = "var" /\ s # NULL /\ var[s].scope = "local" ->
             IF VAR_HAS_INDVAR(var[s]) THEN 0 ELSE pending[Owner(s)].own
        [] arg.k = "var" /\ s # NULL /\ var[s].scope # "local" ->
             (CASE meaning[arg.n].k = "int" -> meaning[arg.n].v
                [] meaning[arg.n].k = "rand" -> UNKNOWN
                [] meaning[arg.n].k \in {"bool", "str"} -> 0
                [] OTHER -> ODD)
        [] OTHER -> ODD

Given(arg) == arg.k = "int" \/ (arg.k = "var" /\ arg.n \in Names /\ Exists(arg.n))

\* A default that var_copy() hands on, which it does not with a random one.
Copied(value) == IF value = UNKNOWN THEN ODD ELSE value

\* var_update_comp_lvars(): a local variable without a value takes its
\* prototype's; a prototype that stands for a variable of the composite around
\* it is replaced by that variable of the instance around it.
var_update_comp_lvars(h, newlvar, proto_comp_vars, mstr_lvars) ==
  LET proto == var_find_list_only(h, h[newlvar].name, proto_comp_vars)
      h1 == IF h[newlvar].set = "none" THEN [h EXCEPT ![newlvar] = var_copy(h, newlvar, proto)]
            ELSE h
      up == IF mstr_lvars = <<>> THEN h[proto].ptr1
            ELSE var_find_list_only(h, h[h[proto].ptr1].name, mstr_lvars)
      h2 == IF mstr_lvars = <<>> THEN h1
            ELSE [h1 EXCEPT ![newlvar] = VAR_SET_INDVAR(@, up)]
  IN  IF proto = NULL THEN h
      ELSE IF ~VAR_HAS_INDVAR(h[proto]) THEN h1
      ELSE IF VAR_HAS_INDVAR(h2[up]) THEN [h2 EXCEPT ![newlvar] = VAR_SET_INDVAR(@, h2[up].ptr1)]
      ELSE h2

\* As avd_update() would be if it did not look in the list it is given.
avd_updateOld(h, avd, lvar_list) ==
  IF avd.type # "var" THEN avd ELSE avd_alloc_var_ptr(h, avd.ptr)

\* avd_update(): an attribute bound to a variable is bound again, to the
\* variable of that name in the instance's list.  One bound to a value is not.
avd_update(h, avd, lvar_list) ==
  LET new == var_find_list_only(h, h[avd.ptr].name, lvar_list)
      found == IF new # NULL THEN new ELSE var_find(h, shm_var_loc_list, h[avd.ptr].name)
  IN  IF avd.type # "var" THEN avd
      ELSE avd_alloc_var_ptr(h, IF found # NULL THEN found ELSE avd.ptr)

\* define flowop name=in, $l=arg { flowop ... iosize=$l }, where the attribute is
\* read while the local variable is on the shared list.  Without $l it refers to
\* a global variable of that name.
DefineIn(arg) ==
  LET h == NewLocal(var, <<>>, LocalIn, arg)
      loc == Added(var, h)
      h1 == var_find_alloc(h, loc, LocalIn)
  IN  /\ Idle /\ "in" \notin DOMAIN def /\ arg.k # "none"
      /\ var' = h1
      /\ def' = [c \in DOMAIN def \cup {"in"} |->
                   [lvars |-> loc, avd |-> avd_alloc_var_ptr(h1, var_find(h1, loc, LocalIn)),
                    fixed |-> loc = <<>> \/ h1[loc[1]].set # "none", value |-> 0,
                    passes |-> FALSE]]
      /\ UNCHANGED <<attrs, pending, executing, insts, shm_var_loc_list, meaning, sticky>>

\* define flowop name=out, $m=marg { flowop in $l=larg }.
DefineOut(marg, larg) ==
  LET h1 == NewLocal(var, <<>>, LocalOut, marg)
      m == Added(var, h1)
      h2 == NewLocal(h1, m, LocalIn, larg)
      l == Added(h1, h2)
      h3 == IF l = <<>> THEN h2 ELSE var_update_comp_lvars(h2, l[1], def["in"].lvars, <<>>)
      passes == m # <<>> /\ larg.k = "var" /\ larg.n = LocalOut
  IN  /\ Idle /\ "in" \in DOMAIN def /\ "out" \notin DOMAIN def
      /\ marg.k # "none"
      /\ var' = h3
      /\ def' = [c \in {"in", "out"} |->
                   IF c = "in" THEN def["in"]
                   ELSE [lvars |-> m, inner |-> l \o def["in"].lvars, passes |-> passes,
                         value |-> IF passes THEN IF Given(marg) THEN ArgValue(marg) ELSE 0
                                   ELSE IF Given(larg) THEN Copied(ArgValue(larg)) ELSE 0]]
      /\ UNCHANGED <<attrs, pending, executing, insts, shm_var_loc_list, meaning, sticky>>

\* A flowop of a process that invokes a composite: its local variable goes to the
\* shared list until the process is complete.
ParseInvoke(c, arg) ==
  LET h == NewLocal(var, shm_var_loc_list, IF c = "in" THEN LocalIn ELSE LocalOut, arg)
      lv == Added(var, h)
  IN  /\ Command /\ c \in DOMAIN def
      /\ var' = h
      /\ shm_var_loc_list' = lv \o shm_var_loc_list
      /\ pending' = Append(pending,
           [comp |-> c, lvars |-> lv, own |-> IF Given(arg) THEN ArgValue(arg) ELSE ODD,
            value |-> IF Given(arg) /\ (c = "in" \/ def["out"].passes) THEN ArgValue(arg)
                      ELSE IF arg.k = "bare" THEN Copied(def[c].value) ELSE def[c].value])
      /\ UNCHANGED <<attrs, def, executing, insts, meaning, sticky>>

\* parser_flowop_define() of the first of them: get_attr_lvars() and
\* parser_inner_flowop_define().
Execute ==
  LET f == Head(pending)
      proto == def[f.comp].lvars
      lvars == f.lvars \o proto
      h1 == IF f.lvars = <<>> THEN var ELSE var_update_comp_lvars(var, f.lvars[1], proto, <<>>)
      \* the inner composite of "out": a new variable for each of its prototypes
      inner == def["out"].inner
      Clone(h, lv) ==
        var_update_comp_lvars(Append(h, Fresh(h[lv].name, "local")), Len(h) + 1, inner, lvars)
      h2 == FoldLeft(Clone, h1, inner)
      cloned == [i \in DOMAIN inner |-> Len(h2) + 1 - i]
  IN  /\ pending # <<>>
      /\ pending' = Tail(pending) /\ executing' = (Tail(pending) # <<>>)
      /\ shm_var_loc_list' = SelectSeq(shm_var_loc_list, LAMBDA p : p \notin ToSet(f.lvars))
      /\ IF f.comp = "in"
         THEN /\ var' = h1
              /\ insts' = Append(insts, [avd |-> avd_update(h1, def["in"].avd, lvars),
                                         value |-> f.value])
         ELSE /\ var' = h2
              /\ insts' = Append(insts, [avd |-> avd_update(h2, def["in"].avd, cloned),
                                         value |-> f.value])
      /\ UNCHANGED <<attrs, def, cmds, meaning, sticky>>

SetCommands ==
  \E n \in Names :
    \/ \E x \in Ints : SetValue(n, "int", x)
    \/ SetValue(n, "bool", 1)
    \/ \E x \in Strs : SetValue(n, "str", x)
    \/ DefineRand(n)
    \/ \E m \in Names :
         \/ SetVar(n, m)
         \/ \E e \in Exprs : SetExpr(n, m, e)
    \/ \E c \in Ints, e \in Exprs : Len(e) = 1 /\ SetIntExpr(n, c, e[1])

CompositeCommands ==
  \/ \E arg \in Args : DefineIn(arg)
  \/ \E marg \in Args, larg \in InnerArgs : DefineOut(marg, larg)
  \/ \E c \in {"in", "out"}, arg \in Args : ParseInvoke(c, arg)
  \/ Execute

Next == SetCommands \/ CompositeCommands \/ \E n \in Names : RefAttr(n)

Spec == Init /\ [][Next]_vars

-----------------------------------------------------------------------------
(* Properties.                                                             *)

\* An attribute that was bound to the value of a variable that has another type
\* by now.
Retyped(a) == a.k \in {"int", "bool", "str", "rand"} /\ meaning[a.name].k # a.k

\* An attribute reads what the script has set its variable to, when it is read:
\* set before or after it was bound, assigned by an operation that came to
\* nothing, and with the expressions of the script evaluated then, at the width
\* of the integers, division by zero, expressions that depend on themselves and
\* constants taken for pointers included.  Two kinds of attributes are excepted:
\* those whose variable has changed its type, and those that found the local
\* variable of an invocation before them.
ReadsExact ==
  \A i \in DOMAIN attrs :
    LET a == attrs[i]
        e == meaning[a.name]
    IN  ~Retyped(a) /\ ~a.local =>
          CASE e.k = "bool" -> avd_get_bool(var, a.avd) = e.v
            [] e.k = "str" -> avd_get_str(var, a.avd) = e.v
            [] OTHER -> avd_get_int(var, a.avd) = ValueOf(a.name)

\* Every invocation's inner flowops get what was passed to it, or the default
\* of the composite, through one or two levels, whatever becomes of the
\* variables that were passed and whatever invocations are pending: what those
\* pass matters only to an argument that has the name of their local variable,
\* and that gets what the latest of them got.  The definition of the inner
\* composite must not give its variable a value.
ArgumentsArrive ==
  \A i \in DOMAIN insts :
    ~def["in"].fixed /\ insts[i].value # ODD =>
      avd_get_int(var, insts[i].avd) = insts[i].value
=============================================================================
