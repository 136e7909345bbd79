--------------------------- MODULE MCRatingCache ---------------------------
EXTENDS RatingCache

MCTable == {"toll", "lane", "price", "segment", "list", "subscription",
            "connection"}
=============================================================================
