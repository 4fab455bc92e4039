-------------------------------- MODULE Assets --------------------------------
(***************************************************************************)
(* contracts/src/common.rs: the assets a vault can hold.                   *)
(***************************************************************************)
EXTENDS Integers

Asset == {"Gold", "TBond", "WTI", "CSPR"}

(* RwaVault::total_allocations, a U512 sum of four U256 that cannot wrap.  *)
Total(holdings) ==
  holdings["Gold"] + holdings["TBond"] + holdings["WTI"] + holdings["CSPR"]
=============================================================================
