---------------------------- MODULE MCCampaigns ----------------------------
(***************************************************************************)
(* Campaigns with a stock that has no M15 and a metal that has one, and    *)
(* briefs that ask for too much, for nothing, or for what there is.        *)
(***************************************************************************)
EXTENDS Campaigns

CONSTANTS stock, gold, first

MCConfigured == [a \in Assets |-> IF a = stock THEN {"D1"} ELSE {"D1", "M15"}]

Short == [assets |-> {gold, stock}, timeframes |-> {"D1"}, recipes |-> {}, max_strategies |-> 0]
Long == [assets |-> {stock}, timeframes |-> {"M15"}, recipes |-> {"cross"}, max_strategies |-> 9]

\* The first idea of one campaign.
MCFollowed == {<<first, 1>>}

ShortAndLong == {Short, Long}
=============================================================================
