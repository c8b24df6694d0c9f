------------------------------ MODULE MCContent ------------------------------
(* Instances of Content for TLC: pages that differ in one thing at a time.  *)
EXTENDS Content

Raw(words, url, size, bulk) ==
  [words |-> words, url |-> url, size |-> size, absolute |-> FALSE, junk |-> TRUE,
   bulk |-> bulk]

Plain == Raw(1, "a", "bare", 1)

\* Other words, another image, sizes in the markup, a body at the limit and
\* one beyond it, one without content, no body at all; the same body with its
\* attachment renumbered or removed.
MCPages ==
  {[body |-> b, files |-> 1] :
     b \in {Plain, Raw(2, "a", "bare", 1), Raw(2, "a", "half", 1), Raw(1, "b", "author", 1),
            Raw(1, "a", "bare", MaxBytes), Raw(1, NoImage, "bare", MaxBytes + 1),
            Raw(0, NoImage, "bare", 1), None}}
  \cup {[body |-> Plain, files |-> f] : f \in {0, 2}}
=============================================================================
