-------------------------- MODULE MCFileLogAppender --------------------------
(* TLC instance of FileLogAppender. *)
EXTENDS FileLogAppender
=============================================================================
