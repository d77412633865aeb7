---------------------------- MODULE MCBoxContents ----------------------------
(* The TLC instance of BoxContents. *)
EXTENDS BoxContents
CONSTANTS a, b, c

\* Nothing tells the products of the template apart: the one extra is no template product.
TemplateSymmetry == Permutations(Template)
===============================================================================
