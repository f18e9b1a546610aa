---------------------------- MODULE MCChatClient ----------------------------
(* A small instance of ChatClient: a message of one cell after a header of
   two, so that fgets takes three cells at a time; a line that is sent, one
   that is too long, one whose tail is empty, and one with a tail to send. *)
EXTENDS ChatClient

Lines == {1, 2, 3, 4}
=============================================================================
