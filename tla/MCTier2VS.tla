----------------------------- MODULE MCTier2VS -----------------------------
(***************************************************************************)
(* Tier2VS with four routes and a range of two ips with two ports each.    *)
(***************************************************************************)
EXTENDS Tier2VS, TLC

\* Data groups of an earlier run: one record at a time, one ahead of the first
\* address, a duplicated address, and records from another range.
MCDataGroups ==
    { ("n1" :> <<1, 2>>),
      ("n1" :> <<1, 1>> @@ "n2" :> <<1, 1>>),
      ("n1" :> <<3, 1>> @@ "n2" :> <<1, 3>> @@ "n3" :> <<2, 0>>) }
=============================================================================
