---------------------------- MODULE MCBufferPool ----------------------------
(* BufferPool with a few threads, frames and pages. *)
EXTENDS BufferPool

CONSTANTS t1, t2, f1, f2

TwoFrames == <<f1, f2>>
Pages == 0..2
Values == 0..1

=============================================================================
