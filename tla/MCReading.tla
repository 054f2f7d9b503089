------------------------------- MODULE MCReading -------------------------------
(* A small instance of LibraryReading: pages of two, two pages at most.      *)
EXTENDS LibraryReading

MCFirstWish == <<2, 1>>
===============================================================================
