------------------------------- MODULE Prices -------------------------------
(***************************************************************************)
(* The price history of one market and timeframe (data/providers.py,       *)
(* agents/data.py) and the places it is cached in: the process-wide frames *)
(* of the market data agent, the Parquet file or the memory of the         *)
(* process, and the object store.                                          *)
(*                                                                         *)
(* A timestamp is within CACHE_TTL_SECONDS or beyond it; at any time after *)
(* that it may be beyond local_cache_keep_days, too.  A fetch and the      *)
(* librarian run in threads of their own.  Nobody asks for refresh=True.   *)
(***************************************************************************)

CONSTANTS
  Caller,       \* who fetches: the market data agent and those who do not wait for it
  MarketData    \* the agent that keeps what it fetched in _FRAMES

VARIABLES
  settings, \* the configuration (Packages.tla)
  cache,    \* the Parquet file, torn while it is being written, or the entry of _MEM
  fresh,    \* its timestamp is within the TTL
  copy,     \* the object in the store
  frame,    \* there is a history in _FRAMES
  fetching, \* caller -> where its fetch is
  judged,   \* the librarian found the file old and asks the store about it
  saved     \* history: the object is exactly what is cached ("yes"), its upload is to
            \*   come ("no"), or it failed, took a torn file or was cut off ("missed")

\* price_cache is taken to follow minimise_local_disk, which forces it to "memory".
InMemory == settings.mode = "minimised"
HasStore == settings.bucket # "off"

TypeOK ==
  /\ cache \in {"none", "torn", "whole"}
  /\ copy \in {"none", "torn", "whole"}
  /\ fetching \in [Caller -> {"no", "asking", "writing", "putting"}]
  /\ {fresh, frame, judged} \subseteq BOOLEAN
  /\ saved \in {"yes", "no", "missed"}

Init ==
  /\ cache = "none" /\ copy = "none" /\ fresh = FALSE /\ frame = FALSE
  /\ fetching = [c \in Caller |-> "no"]
  /\ judged = FALSE /\ saved = "yes"

\* A fetch returns a history; market data keeps it as long as the process lives.
Return(c) ==
  /\ fetching' = [fetching EXCEPT ![c] = "no"]
  /\ frame' = (frame \/ c = MarketData)

Proceed(c, step) == fetching' = [fetching EXCEPT ![c] = step] /\ UNCHANGED frame

\* A Parquet file that cannot be read is deleted, also under its writer's hands.
Discard == cache' = IF cache = "torn" THEN "none" ELSE cache

-----------------------------------------------------------------------------
(* fetch_ohlcv, after get_frame found no frame.  What follows once neither    *)
(* the cache nor the store had a history is asking the provider.              *)

\* What is fresh is served.
FromCache(c) ==
  /\ fetching[c] = "no" /\ ~frame
  /\ IF fresh /\ cache = "whole" THEN Return(c) ELSE Proceed(c, "asking")
  /\ IF fresh THEN Discard ELSE UNCHANGED cache
  /\ UNCHANGED <<fresh, copy, judged, saved>>

\* On disk the store is asked when there is no file, in memory whenever the entry is
\* not fresh.  However old the copy is, its timestamp is that of the restore; one that
\* cannot be read leaves nothing behind.
FromStore(c) ==
  /\ fetching[c] = "asking" /\ copy = "whole"
  /\ InMemory \/ cache = "none"
  /\ cache' = "whole" /\ fresh' = TRUE /\ saved' = "yes"
  /\ Return(c)
  /\ UNCHANGED <<copy, judged>>

\* The provider answers.  to_parquet starts by emptying the file that was there.
Download(c) ==
  /\ fetching[c] = "asking"
  /\ Proceed(c, "writing")
  /\ IF InMemory THEN UNCHANGED <<cache, fresh>> ELSE cache' = "torn" /\ fresh' = TRUE
  /\ UNCHANGED <<copy, judged, saved>>

\* It does not: a stale entry is better than none.
UseStale(c) ==
  /\ fetching[c] = "asking"
  /\ IF cache = "whole" THEN Return(c) ELSE Proceed(c, "no")
  /\ Discard
  /\ UNCHANGED <<fresh, copy, judged, saved>>

\* The end of to_parquet, in vain if the file was deleted, or the entry in memory.
Write(c) ==
  /\ fetching[c] = "writing"
  /\ IF InMemory \/ cache # "none"
     THEN cache' = "whole" /\ fresh' = TRUE /\ saved' = "no"
     ELSE UNCHANGED <<cache, fresh, saved>>
  /\ Proceed(c, "putting")
  /\ UNCHANGED <<copy, judged>>

\* What is there is uploaded, also a file that somebody else has begun to write again.
\* The upload may fail; nobody hears of it.
Put(c) ==
  /\ fetching[c] = "putting"
  /\ \/ /\ UNCHANGED copy
        /\ saved' = IF saved = "no" THEN "missed" ELSE saved
     \/ /\ HasStore /\ cache # "none"
        /\ copy' = cache
        /\ saved' = IF cache = "whole" THEN "yes" ELSE "missed"
  /\ Return(c)
  /\ UNCHANGED <<cache, fresh, judged>>

-----------------------------------------------------------------------------
(* Around it *)

\* The librarian finds the file old, ...
Judge ==
  /\ ~InMemory /\ HasStore /\ cache # "none" /\ ~fresh
  /\ judged' = TRUE
  /\ UNCHANGED <<cache, fresh, copy, frame, fetching, saved>>

\* Mutant of Prune: an old file goes as soon as there is a store.
PruneUnchecked ==
  /\ judged /\ judged' = FALSE
  /\ cache' = "none"
  /\ UNCHANGED <<fresh, copy, frame, fetching, saved>>

\* ... and removes the file of that name, whatever it is by now, when the store has
\* an object of that name, whatever it holds.
Prune ==
  /\ judged /\ judged' = FALSE
  /\ cache' = IF copy # "none" THEN "none" ELSE cache
  /\ UNCHANGED <<fresh, copy, frame, fetching, saved>>

\* The process ends.  A file that was being written stays torn.
Forget ==
  /\ cache' = IF InMemory THEN "none" ELSE cache
  /\ frame' = FALSE /\ judged' = FALSE
  /\ fetching' = [c \in Caller |-> "no"]
  /\ saved' = IF saved = "no" THEN "missed" ELSE saved
  /\ UNCHANGED <<fresh, copy>>

Expire ==
  /\ fresh' = FALSE
  /\ UNCHANGED <<cache, copy, frame, fetching, judged, saved>>

PriceStep ==
  \/ \E c \in Caller : FromCache(c) \/ FromStore(c) \/ Download(c)
  \/ \E c \in Caller : UseStale(c) \/ Write(c) \/ Put(c)
  \/ Judge \/ Prune \/ Expire

-----------------------------------------------------------------------------
(* Properties *)

\* A history that can be served although the provider does not answer.
Held == cache = "whole" \/ copy = "whole"
\* A fetch has the Parquet file in hand.
Rewriting == ~InMemory /\ \E c \in Caller : fetching[c] \in {"writing", "putting"}

\* "Never deletes anything that is not verifiably elsewhere" (system.py:527-529), as
\* far as the code keeps it.  While the process runs, a whole history leaves the cache
\* only when the store has exactly that history, or an object of its name while the
\* upload is to come or was missed.  And only a fetch that rewrites the file, a
\* removal after a missed upload, and the end of the process that held it in memory
\* take the last history away.
CacheIsSound ==
  [][/\ cache = "whole" /\ cache' = "none"
          => \/ saved = "yes" /\ copy = "whole"
             \/ copy # "none" /\ (saved = "missed" \/ Rewriting)
             \/ InMemory
     /\ Held /\ ~Held'
          => \/ Rewriting'
             \/ saved = "missed" /\ cache' = "none"
             \/ InMemory /\ cache' = "none"
    ]_<<cache, fresh, copy, frame, fetching, judged, saved>>
=============================================================================
