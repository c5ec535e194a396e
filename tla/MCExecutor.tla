----------------------------- MODULE MCExecutor -----------------------------
(* Values for checking Executor.tla on small instances. *)
EXTENDS Executor

\* Provider "a" has two keys, "n" none.
MCKeyOrder == [p \in Providers |-> IF p = "a" THEN <<0, 1>> ELSE <<>>]
OneKey == [p \in Providers |-> <<0>>]

\* The small model stands between two large ones.
MCWindow == [m \in Models |-> CASE m = "small" -> 1 [] m = "mid" -> 2 [] OTHER -> 3]

NoTargets == {}
OneTarget == {<<"a", "mid">>}
OnlyA == {<<<<"a", "mid">>>>}
AroundKeyless == {<<<<"a", "mid">>, <<"n", "large">>, <<"a", "small">>>>}
=============================================================================
