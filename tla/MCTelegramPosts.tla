---------------------------- MODULE MCTelegramPosts ----------------------------
(* TLC instances of TelegramPosts.                                          *)
EXTENDS TelegramPosts, TLC

Interchangeable == Permutations(Handlers)
=============================================================================
