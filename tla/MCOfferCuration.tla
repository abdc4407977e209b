---------------------------- MODULE MCOfferCuration ----------------------------
EXTENDS OfferCuration, TLC

Doc(min, max) == [f \in Fields |-> IF f = "min" THEN min ELSE max]

\* The old parser found the lower bound only.
MCRetained == Doc(1, Nothing)

\* The new parser finds the upper bound too; the edit raises the lower bound and names
\* no upper one.
MCRaised == [r \in Revisions |-> IF r = 1 THEN Doc(1, 2) ELSE Doc(2, Nothing)]

\* The new parser finds the upper bound in the text the old one missed it in.
MCFound == [r \in Revisions |-> Doc(1, 2)]

\* Neither bound was found, until the edit names both.
MCEmpty == Doc(Nothing, Nothing)
MCPair == [r \in Revisions |-> IF r = 1 THEN MCEmpty ELSE Doc(1, 1)]

\* One replay worker is like another, and so are two that process batches or ingest.
Successors == Permutations(Replayers)
Interchangeable == Permutations(Processors) \cup Permutations(Ingesters)
=============================================================================
