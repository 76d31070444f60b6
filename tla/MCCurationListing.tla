--------------------------- MODULE MCCurationListing ---------------------------
EXTENDS CurationListing, TLC

CONSTANTS A, B

By(field, ascending) == [field |-> field, ascending |-> ascending]

MCOrderings ==
  {By("created", TRUE), By("confidence", FALSE), By("updated", FALSE)}

Doc(created, updated, confidence, cluster, reviews, reviewed) ==
  [created |-> created, updated |-> updated, confidence |-> confidence,
   cluster |-> cluster, reviews |-> reviews, reviewed |-> reviewed]

\* Equal values in every column, decisions replaced and never replaced (so that
\* pages by updated_at end in either tier), one reviewed before its placement and
\* one since.
MCInitial ==
  {[decisions |-> << Doc(1, 2, 1, A, 1, FALSE), Doc(1, 0, 1, A, 0, FALSE),
                     Doc(2, 0, 2, B, 1, TRUE) >> @@ (4 :> None),
    actions |-> << None, [created |-> 1, about |-> 1], None, [created |-> 1, about |-> 3] >>]}

MCFilters ==
  {[ever |-> None, since |-> None, minimum |-> 0, mentions |-> Ids],
   [ever |-> TRUE, since |-> FALSE, minimum |-> 0, mentions |-> Ids],
   [ever |-> None, since |-> None, minimum |-> 2, mentions |-> {1, 3, 4}]}

MCActionFilters == {[decision |-> None, from |-> 0], [decision |-> 4, from |-> 1]}

\* Five decisions, three in one cluster and two in another; or eight, of which the
\* last alone was ever replaced.
MCInitialScan ==
  {[decisions |-> [i \in Ids |-> IF i <= 5 THEN Doc(1, 0, 1, IF i % 2 = 1 THEN A ELSE B, 0, FALSE)
                                           ELSE None],
    actions |-> [i \in Ids |-> None]],
   [decisions |-> [i \in Ids |-> Doc(1, IF i = 8 THEN 2 ELSE 0, 1, A, 0, FALSE)],
    actions |-> [i \in Ids |-> None]]}
MCSizeOrderings == {By("size", TRUE), By("size", FALSE)}
MCNoFilters == {[ever |-> None, since |-> None, minimum |-> 0, mentions |-> Ids]}
=============================================================================
