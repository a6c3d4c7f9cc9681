------------------------------ MODULE MCReview ------------------------------
EXTENDS Review

\* Each option by itself and the combinations whose stages interact; a shard
\* accepts fewer.
MCOptions ==
    {{"budget", "specs", "testPlans"}, {"budget", "voi", "allowEmpty"}, {"specs"},
     {"budget", "tiered", "testPlans"}, {"budget", "shard"}, {"shard", "tiered"}, {}}
=============================================================================
