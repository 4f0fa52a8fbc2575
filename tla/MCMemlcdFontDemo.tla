-------------------------- MODULE MCMemlcdFontDemo --------------------------
(* Instantiation of MemlcdFontDemo for TLC; the bounds are in the .cfg     *)
(* files (Rows = 2 so that a trailer falls between two rows, RowChunks = 2 *)
(* so that it can fall inside one).                                        *)
EXTENDS MemlcdFontDemo
=============================================================================
