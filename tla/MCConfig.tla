------------------------------ MODULE MCConfig ------------------------------
(* A small instance of Config: two sessions of root's and one of a desktop *)
(* user; values that fit, one that does not, a file that is not TOML.      *)
EXTENDS Config

CONSTANTS alice, r1, r2, a1

Accounts == [s \in Session |-> IF s = a1 THEN alice ELSE Root]

GoodAndBad ==
  {<<"budget_gb", "2">>, <<"budget_period", "DAY">>, <<"budget_gb", "day">>}

EmptyOrGarbage == {Nothing, Garbage}

(* Nobody has any; or alice has one of text and the daemon both.           *)
Variables ==
  {[a \in Account |-> Nothing],
   [a \in Account |->
      CASE a = Root   -> Nothing
        [] a = alice  -> [budget_period |-> "often"]
        [] a = Daemon -> [budget_period |-> "DAY", budget_gb |-> "day"]]}
=============================================================================
