----------------------------- MODULE MCTokenizer -----------------------------
(***************************************************************************)
(* All lines of up to MaxLine bytes with two ordinary bytes; a name has    *)
(* two bytes and an argument one, so that each is cut.                     *)
(***************************************************************************)
EXTENDS Tokenizer

CONSTANTS cr, lf, sp, a, b

Ordinary == {a, b}
=============================================================================
