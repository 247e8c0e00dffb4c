----------------------------- MODULE MCTelegram -----------------------------
(* Telegram for TLC: requests, codes, users and messages are alike. *)
EXTENDS Telegram, TLC

Symmetry == Permutations(Requests) \cup Permutations(Codes) \cup Permutations(Users)
            \cup Permutations(Updates)
=============================================================================
