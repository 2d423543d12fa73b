----------------------------- MODULE MCGuestBoot -----------------------------
EXTENDS GuestBoot

(* One password that the shuffle leads with a symbol, one it does not. *)
MCShuffles == {<<"alnum", "symbol">>, <<"symbol", "alnum">>}
=============================================================================
