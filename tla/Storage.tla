------------------------------ MODULE Storage -------------------------------
(***************************************************************************)
(* What the factory keeps outside its database (storage.py): the packages  *)
(* of the delivery squad and the price history.  One switch decides where  *)
(* both are kept, one object store takes the copies of both, and a restart *)
(* of the process ends the work on both.                                   *)
(***************************************************************************)
EXTENDS Packages

CONSTANTS Caller, MarketData

VARIABLES cache, fresh, copy, frame, fetching, judged, saved

Prices == INSTANCE Prices

ASSUME StorageAssumption == MarketData \in Caller

priceVars == <<cache, fresh, copy, frame, fetching, judged, saved>>
vars == <<settings, packageVars, priceVars>>

StorageInit == Init /\ Prices!Init

Restart == DropAll /\ Prices!Forget

Next ==
  /\ UNCHANGED settings
  /\ \/ PackageStep /\ UNCHANGED priceVars
     \/ Prices!PriceStep /\ UNCHANGED packageVars
     \/ Restart

Spec == StorageInit /\ [][Next]_vars

-----------------------------------------------------------------------------
(* Properties *)

\* Both halves keep their types.
TypesOK == TypeOK /\ Prices!TypeOK

\* The property of the price half (Prices.tla).
CacheIsSound == Prices!CacheIsSound
=============================================================================
