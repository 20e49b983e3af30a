------------------------------ MODULE Meaning ------------------------------
(***************************************************************************)
(* What an expression means, independently of byte code: the reference the *)
(* compiler and the machine are checked against.                           *)
(*                                                                         *)
(* Meaning(e, answers) evaluates e by recursion on its form, taking the    *)
(* answers to its questions from a list.  An evaluation ends in one of     *)
(* these ways (field k):                                                   *)
(*   "value"   with a value;                                               *)
(*   "return"  a function is being left, with a value;                     *)
(*   "escape"  a till loop is being left, through one of its flags;        *)
(*   "throw"   an exception;                                               *)
(*   "more"    the answers have run out.                                   *)
(* The world is threaded through: the log, the answers left, the variables *)
(* of each activation (a function has one set of variables per call, which *)
(* a scope resets when it is entered), and the till loops in progress.     *)
(***************************************************************************)
EXTENDS Compiler

LOCAL Truth(v) == CASE v[1] = "null" -> FALSE
                    [] v[1] = "bool" -> v[2]
                    [] v[1] = "int"  -> v[2] # 0
                    [] OTHER         -> TRUE

LOCAL With(f, x, v) == [y \in DOMAIN f \cup {x} |-> IF y = x THEN v ELSE f[y]]

End(kind, v, w) == [k |-> kind, v |-> v, w |-> w]
Value(v, w)     == End("value", v, w)

RECURSIVE Means(_, _, _)

(* The last of several expressions, all of them evaluated in turn.          *)
RECURSIVE InTurn(_, _, _, _)
InTurn(es, last, env, w) ==
  IF es = <<>> THEN Value(last, w)
  ELSE LET r == Means(Head(es), env, w)
       IN IF r.k # "value" THEN r ELSE InTurn(Tail(es), r.v, env, r.w)

RECURSIVE AllOf(_, _, _, _)
AllOf(es, vs, env, w) ==
  IF es = <<>> THEN Value(vs, w)
  ELSE LET r == Means(Head(es), env, w)
       IN IF r.k # "value" THEN r ELSE AllOf(Tail(es), Append(vs, r.v), env, r.w)

(* Evaluate until one has the truth value wanted.                           *)
RECURSIVE FirstThat(_, _, _, _)
FirstThat(es, wanted, env, w) ==
  IF es = <<>> THEN Value(<<"bool", ~wanted>>, w)
  ELSE LET r == Means(Head(es), env, w)
       IN IF r.k # "value" THEN r
          ELSE IF Truth(r.v) = wanted THEN Value(<<"bool", wanted>>, r.w)
          ELSE FirstThat(Tail(es), wanted, env, r.w)

RECURSIVE Loop(_, _, _, _)
Loop(e, last, env, w) ==
  LET pre  == Means(e[2], env, w)
      cond == Means(e[3], env, pre.w)
      post == Means(e[4], env, cond.w)
      v    == IF e[2] # NullOb THEN pre.v ELSE last
  IN IF pre.k # "value" THEN pre
     ELSE IF cond.k # "value" THEN cond
     ELSE IF ~Truth(cond.v) THEN Value(v, cond.w)
     ELSE IF post.k # "value" THEN post
     ELSE Loop(e, IF e[2] # NullOb THEN pre.v ELSE post.v, env, post.w)

(* The body again and again, until it ends otherwise.                       *)
RECURSIVE Forever(_, _, _)
Forever(body, env, w) ==
  LET r == Means(body, env, w) IN IF r.k # "value" THEN r ELSE Forever(body, env, r.w)

Lookup(x, env) ==
  env.names[CHOOSE n \in DOMAIN env.names :
              /\ env.names[n].name = x
              /\ \A m \in DOMAIN env.names : env.names[m].name = x => m <= n]
Known(x, env) == \E n \in DOMAIN env.names : env.names[n].name = x

(* Variables of the running activation are added to the names in scope.     *)
Fresh(names, kind, env) ==
  [env EXCEPT !.names = @ \o [n \in DOMAIN names |->
     [name |-> names[n], kind |-> kind, at |-> <<env.act, env.path, names[n]>>]]]

Assigned(w, env, names, vs) ==
  FoldLeftDomain(LAMBDA v, n : [v EXCEPT !.store = With(@, Lookup(names[n], env).at, vs[n])],
                 w, names)

Apply(f, args, w) ==
  CASE f[1] = "ext" /\ f[2] = "ask" /\ args = <<>> ->
         IF w.answers = <<>> THEN End("more", Null, w)
         ELSE Value(Head(w.answers),
                [w EXCEPT !.answers = Tail(@), !.log = Append(@, <<"asked", Head(w.answers)>>)])
    [] f[1] = "ext" /\ f[2] = "say" /\ Len(args) = 1 ->
         Value(Null, [w EXCEPT !.log = Append(@, <<"said", args[1]>>)])
    [] f[1] = "lambda" /\ Len(args) = Len(f[2]) ->
         LET env == Fresh(f[2], "variable", [f[4] EXCEPT !.act = w.acts + 1])
             r   == Means(f[3], env, Assigned([w EXCEPT !.acts = @ + 1], env, f[2], args))
         IN IF r.k = "return" THEN Value(r.v, r.w) ELSE r
    [] OTHER -> End("throw", Null, w)

(* A till loop is open while its body runs; leaving the body in any way     *)
(* closes it.                                                               *)
TillMeans(flags, body, whens, env, w) ==
  LET me    == w.tills + 1
      inner == [env EXCEPT !.names = @ \o [n \in DOMAIN flags |->
                  [name |-> flags[n], kind |-> "till", till |-> me]]]
      b     == Forever(body, inner, [w EXCEPT !.tills = me, !.open = @ \cup {me}])
      after == [b.w EXCEPT !.open = @ \ {me}]
      chosen == {n \in DOMAIN whens : b.v = <<me, whens[n][1]>>}
  IN IF b.k # "escape" \/ b.v[1] # me THEN [b EXCEPT !.w = after]
     ELSE IF chosen = {} THEN Value(Null, after)
     ELSE Means(whens[CHOOSE n \in chosen : TRUE][2], inner, after)

Means(e, outer, w) ==
  LET env == [outer EXCEPT !.path = Append(@, e)]
      All(es) == AllOf(es, <<>>, env, w)
      one == Means(e[2], env, w)
  IN CASE e[1] = "lit" -> Value(e[2], w)
       [] e[1] = "sym" ->
            IF ~Known(e[2], env)
              THEN Value(IF e[2] \in DOMAIN w.globals THEN w.globals[e[2]] ELSE Null, w)
            ELSE LET s == Lookup(e[2], env)
                 IN IF s.kind # "till" THEN Value(w.store[s.at], w)
                    ELSE IF s.till \in w.open THEN End("escape", <<s.till, e[2]>>, w)
                    ELSE End("throw", Null, w)
       [] e[1] = "set" ->
            LET r == Means(e[3], env, w)
            IN IF r.k # "value" THEN r
               ELSE IF Known(e[2], env)
                 THEN Value(r.v, [r.w EXCEPT !.store = With(@, Lookup(e[2], env).at, r.v)])
               ELSE Value(r.v, [r.w EXCEPT !.globals = With(@, e[2], r.v)])
       [] e[1] = "call" ->
            LET r == All(e[2])
            IN IF r.k # "value" THEN r ELSE Apply(Head(r.v), Tail(r.v), r.w)
       [] e[1] = "not" ->
            IF one.k # "value" THEN one ELSE Value(<<"bool", ~Truth(one.v)>>, one.w)
       [] e[1] = "eq" ->
            LET r == All(<<e[2], e[3]>>)
            IN IF r.k # "value" THEN r ELSE Value(<<"bool", r.v[1] = r.v[2]>>, r.w)
       [] e[1] = "if" ->
            IF one.k # "value" THEN one
            ELSE Means(IF Truth(one.v) THEN e[3] ELSE e[4], env, one.w)
       [] e[1] = "and"   -> FirstThat(e[2], FALSE, env, w)
       [] e[1] = "or"    -> FirstThat(e[2], TRUE, env, w)
       [] e[1] = "progn" -> InTurn(e[2], Null, env, w)
       [] e[1] = "prog1" ->
            LET r == All(e[2])
            IN IF r.k # "value" THEN r ELSE Value(IF e[2] = <<>> THEN Null ELSE r.v[1], r.w)
       [] e[1] = "scope" ->
            LET inner == Fresh(e[2], "variable", env)
            IN InTurn(e[3], Null, inner,
                      Assigned(w, inner, e[2], [n \in DOMAIN e[2] |-> Null]))
       [] e[1] = "while"  -> Loop(e, Null, env, w)
       [] e[1] = "till"   -> TillMeans(e[2], e[3], e[4], env, w)
       [] e[1] = "fn"     -> Value(<<"lambda", e[2], e[3], env>>, w)
       [] e[1] = "return" ->
            IF e[2] = <<>> THEN End("return", Null, w)
            ELSE LET r == Means(e[2][1], env, w)
                 IN IF r.k # "value" THEN r ELSE End("return", r.v, r.w)
       [] e[1] = "brk"    -> Value(Null, w)

Meaning(e, answers) ==
  Means(e, [names |-> <<>>, act |-> 0, path |-> <<>>],
        [log |-> <<>>, answers |-> answers, acts |-> 0, tills |-> 0, open |-> {},
         store |-> [x \in {} |-> Null],
         globals |-> [x \in {"ask", "say"} |-> <<"ext", x>>]])
=============================================================================
