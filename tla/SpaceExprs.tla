----------------------------- MODULE SpaceExprs -----------------------------
(***************************************************************************)
(* The iteration spaces as the source has them: methods that build the     *)
(* expressions LoopGen puts into the loop.  IterSpace says what the        *)
(* methods compute, this module which expressions they return.             *)
(*                                                                         *)
(* s is a structure the Reffine pass made, each of whose nodes is told its *)
(* place `at`, and op the operator it is for: a record that has the types  *)
(* of its vectors by name and x, the symbol the weights of bounds go with. *)
(***************************************************************************)
EXTENDS ReffinePass, IR

RECURSIVE Placed(_, _)
Placed(s, at) ==
  LET here == s @@ [at |-> at]
  IN  CASE s.kind \in {"universal", "vec"} -> here
        [] s.kind \in SuperKinds -> [here EXCEPT !.ispace = Placed(@, at \o "s")]
        [] s.kind \in JointKinds -> [here EXCEPT !.left = Placed(@, at \o "l"), !.right = Placed(@, at \o "r")]
        [] s.kind = "nested"     -> [here EXCEPT !.outer = Placed(@, at \o "l"), !.inner = Placed(@, at \o "r")]

_vec(op, s) == _sym(s.vec, "", op.vecs[s.vec])
LenSym(s) == _sym(s.vec \o "_len", s.at, IDX)

(* The BOOL symbol of a filter: the user's, computed from the iterator.    *)
FlagSym(s) == _sym("flag_" \o s.at, s.at, BOOL)

(* ConstantSpace: the bound the solver found.                              *)
BoundExpr(op, b) ==
  LET bias == _const(INT64, b.bias)
  IN  IF b.weight = 0 THEN bias
      ELSE _add(bias, _binary("MUL", _const(INT64, b.weight), op.x))

(* One bound from two, either of which may be missing.                     *)
Joined(fn, l, r) == IF l # <<>> /\ r # <<>> THEN <<_binary(fn, l[1], r[1])>> ELSE l \o r

RECURSIVE _idx_to_iter(_, _, _)
_idx_to_iter(op, s, idx) ==
  CASE s.kind = "universal"  -> idx
    [] s.kind = "vec"        -> _readdata(_vec(op, s), idx, 0)
    [] s.kind = "shifted"    -> _add(_idx_to_iter(op, s.ispace, idx), _const(INT64, s.offset))
    [] s.kind \in SuperKinds -> _idx_to_iter(op, s.ispace, idx)
    [] s.kind \in JointKinds -> _binary("MIN", _idx_to_iter(op, s.left, _get(idx, 0)),
                                               _idx_to_iter(op, s.right, _get(idx, 1)))
    [] s.kind = "nested"     -> _new(<<_idx_to_iter(op, s.outer, _get(idx, 0)),
                                       _idx_to_iter(op, s.inner, _get(idx, 1))>>)

(* The empty sequence is nullptr.                                          *)
RECURSIVE _lower_bound(_, _)
_lower_bound(op, s) ==
  CASE s.kind = "universal" -> <<>>
    [] s.kind = "vec"       -> <<_readdata(_vec(op, s), _idx(0), 0)>>
    [] s.kind = "shifted"   -> <<_add(_lower_bound(op, s.ispace)[1], _const(INT64, s.offset))>>
    [] s.kind = "lbound"    -> Joined("MAX", <<BoundExpr(op, s.bound)>>, _lower_bound(op, s.ispace))
    [] s.kind = "union"     -> Joined("MIN", _lower_bound(op, s.left), _lower_bound(op, s.right))
    [] s.kind = "inter"     -> Joined("MAX", _lower_bound(op, s.left), _lower_bound(op, s.right))
    [] s.kind = "nested"    -> <<_new(_lower_bound(op, s.outer) \o _lower_bound(op, s.inner))>>
    [] OTHER                -> _lower_bound(op, s.ispace)

RECURSIVE _upper_bound(_, _)
_upper_bound(op, s) ==
  CASE s.kind = "universal" -> <<>>
    [] s.kind = "vec"       -> <<_readdata(_vec(op, s), _sub(LenSym(s), _idx(1)), 0)>>
    [] s.kind = "shifted"   -> <<_add(_upper_bound(op, s.ispace)[1], _const(INT64, s.offset))>>
    [] s.kind = "ubound"    -> Joined("MIN", <<BoundExpr(op, s.bound)>>, _upper_bound(op, s.ispace))
    [] s.kind = "union"     -> Joined("MAX", _upper_bound(op, s.left), _upper_bound(op, s.right))
    [] s.kind = "inter"     -> Joined("MIN", _upper_bound(op, s.left), _upper_bound(op, s.right))
    [] OTHER                -> _upper_bound(op, s.ispace)

RECURSIVE _iter_to_idx(_, _, _)
_iter_to_idx(op, s, iter) ==
  CASE s.kind = "universal"  -> iter
    [] s.kind = "vec"        -> _locate(_vec(op, s), iter)
    [] s.kind = "shifted"    -> _iter_to_idx(op, s.ispace, _sub(iter, _const(INT64, s.offset)))
    [] s.kind \in SuperKinds -> _iter_to_idx(op, s.ispace, iter)
    [] s.kind \in JointKinds -> _new(<<_iter_to_idx(op, s.left, iter), _iter_to_idx(op, s.right, iter)>>)
    [] s.kind = "nested"     -> _new(<<_iter_to_idx(op, s.outer, _get(iter, 0)),
                                       _iter_to_idx(op, s.inner, _get(iter, 1))>>)

RECURSIVE _iter_cond(_, _, _)
_iter_cond(op, s, idx) ==
  CASE s.kind = "universal" -> _const(BOOL, 1)
    [] s.kind = "vec"       -> LET isval == _readbit(_vec(op, s), idx, 0)
                               IN  _and(_lt(idx, LenSym(s)), _define(symify("valid", s.at, BOOL), isval))
    [] s.kind = "filtered"  -> _and(FlagSym(s), _iter_cond(op, s.ispace, idx))
    [] s.kind = "lbound"    -> _and(_binary("GTE", _idx_to_iter(op, s, idx), _lower_bound(op, s)[1]),
                                    _iter_cond(op, s.ispace, idx))
    [] s.kind = "ubound"    -> _and(_lte(_idx_to_iter(op, s, idx), _upper_bound(op, s)[1]),
                                    _iter_cond(op, s.ispace, idx))
    [] s.kind = "union"     -> _or(_iter_cond(op, s.left, _get(idx, 0)),
                                   _iter_cond(op, s.right, _get(idx, 1)))
    [] s.kind = "inter"     -> _and(_and(_iter_cond(op, s.left, _get(idx, 0)),
                                         _iter_cond(op, s.right, _get(idx, 1))),
                                    _eq(_idx_to_iter(op, s.left, _get(idx, 0)),
                                        _idx_to_iter(op, s.right, _get(idx, 1))))
    [] s.kind = "nested"    -> _and(_iter_cond(op, s.outer, _get(idx, 0)),
                                    _iter_cond(op, s.inner, _get(idx, 1)))
    [] OTHER                -> _iter_cond(op, s.ispace, idx)

RECURSIVE _is_alive(_, _, _)
_is_alive(op, s, idx) ==
  CASE s.kind = "universal" -> _const(BOOL, 1)
    [] s.kind = "vec"       -> _lt(idx, LenSym(s))
    [] s.kind = "ubound"    -> _and(_lte(_idx_to_iter(op, s, idx), _upper_bound(op, s)[1]),
                                    _is_alive(op, s.ispace, idx))
    [] s.kind = "union"     -> _or(_is_alive(op, s.left, _get(idx, 0)), _is_alive(op, s.right, _get(idx, 1)))
    [] s.kind = "inter"     -> _and(_is_alive(op, s.left, _get(idx, 0)), _is_alive(op, s.right, _get(idx, 1)))
    [] s.kind = "nested"    -> _is_alive(op, s.outer, _get(idx, 0))
    [] OTHER                -> _is_alive(op, s.ispace, idx)

(* The step of a joint space: both conditions are symbols, which InitVal   *)
(* has computed before either component of the new pair is stored.         *)
JointNext(next, idx, liter, riter, at) ==
  LET lcond == _lte(liter, riter)
      rcond == _lte(riter, liter)
      lcond_sym == symify("", at \o "l", BOOL)
      rcond_sym == symify("", at \o "r", BOOL)
  IN  _initval(<<lcond_sym, rcond_sym>>,
               _new(<<_sel(_define(lcond_sym, lcond), next[1], _get(idx, 0)),
                      _sel(_define(rcond_sym, rcond), next[2], _get(idx, 1))>>))

NestedNextExpr(op, s, next, idx) ==
  LET i_start == _get(_iter_to_idx(op, s, _lower_bound(op, s)[1]), 1)
      active == _is_alive(op, s.inner, _get(idx, 1))
  IN  _sel(_define(symify("", s.at, BOOL), active),
           _new(<<_get(idx, 0), next[2]>>), _new(<<next[1], i_start>>))

RECURSIVE _next(_, _, _)
_next(op, s, idx) ==
  CASE s.kind \in {"universal", "vec"} -> _add(idx, _const(idx.type, 1))
    [] s.kind \in SuperKinds -> _next(op, s.ispace, idx)
    [] s.kind \in JointKinds -> JointNext(<<_next(op, s.left, _get(idx, 0)),
                                            _next(op, s.right, _get(idx, 1))>>, idx,
                                          _idx_to_iter(op, s.left, _get(idx, 0)),
                                          _idx_to_iter(op, s.right, _get(idx, 1)), s.at)
    [] s.kind = "nested"     -> NestedNextExpr(op, s, <<_next(op, s.outer, _get(idx, 0)),
                                                        _next(op, s.inner, _get(idx, 1))>>, idx)

(* Which index stands in which vector; each vector is walked once, with    *)
(* the iterator its In names: the operator's own, moved by the shift.      *)
RECURSIVE _vec_iter_idxs(_, _, _, _)
_vec_iter_idxs(op, s, idx, iter) ==
  CASE s.kind = "universal"  -> {}
    [] s.kind = "vec"        -> {[vec |-> _vec(op, s), iter |-> iter, idx |-> idx]}
    [] s.kind = "shifted"    -> _vec_iter_idxs(op, s.ispace, idx, _add(iter, _const(INT64, s.offset)))
    [] s.kind \in SuperKinds -> _vec_iter_idxs(op, s.ispace, idx, iter)
    [] s.kind \in JointKinds -> _vec_iter_idxs(op, s.left, _get(idx, 0), iter)
                                \union _vec_iter_idxs(op, s.right, _get(idx, 1), iter)
    [] s.kind = "nested"     -> _vec_iter_idxs(op, s.outer, _get(idx, 0), iter)
                                \union _vec_iter_idxs(op, s.inner, _get(idx, 1), iter)

(* The lengths, by their symbols.                                          *)
RECURSIVE _extra_syms(_, _)
_extra_syms(op, s) ==
  CASE s.kind = "universal"  -> <<>>
    [] s.kind = "vec"        -> <<[sym |-> LenSym(s), expr |-> _len(_vec(op, s), 0)]>>
    [] s.kind \in SuperKinds -> _extra_syms(op, s.ispace)
    [] s.kind \in JointKinds -> _extra_syms(op, s.left) \o _extra_syms(op, s.right)
    [] s.kind = "nested"     -> _extra_syms(op, s.outer) \o _extra_syms(op, s.inner)

(* The user's entries of the filters' symbols.                             *)
KeepExpr(keep, iter) ==
  LET RECURSIVE AnyOf(_)
      AnyOf(S) == IF S = {} THEN _const(BOOL, 0)
                  ELSE LET k == CHOOSE k \in S : TRUE
                       IN  _or(_eq(iter, _const(INT64, k)), AnyOf(S \ {k}))
  IN  AnyOf(keep)

RECURSIVE FlagTable(_, _)
FlagTable(s, iter) ==
  CASE s.kind \in {"universal", "vec"} -> <<>>
    [] s.kind = "filtered"   -> Entry(FlagSym(s), KeepExpr(s.keep, iter)) @@ FlagTable(s.ispace, iter)
    [] s.kind \in SuperKinds -> FlagTable(s.ispace, iter)
    [] s.kind \in JointKinds -> FlagTable(s.left, iter) @@ FlagTable(s.right, iter)
    [] s.kind = "nested"     -> FlagTable(s.outer, iter) @@ FlagTable(s.inner, iter)
=============================================================================
