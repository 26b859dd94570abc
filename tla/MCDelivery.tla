---------------------------- MODULE MCDelivery ----------------------------
\* Plans of up to three items of every sort, and longer ones of images for the albums.
EXTENDS Delivery

Small == {[kind |-> k, large |-> FALSE] : k \in {"image", "raw_image", "video", "other"}}
Big == {[kind |-> k, large |-> TRUE] : k \in {"image", "video"}}
UpTo(n, S) == UNION {[1..k -> S] : k \in 1..n}

SingleItem == [route: {"single"}, mode: Modes, multipart: BOOLEAN, items: [1..1 -> Small \union Big]]
Mixed == [route: {"artifacts", "instagram", "collection"}, mode: Modes, multipart: {TRUE},
          items: UpTo(3, Small \union Big)]
Unsplit == [route: {"artifacts", "collection"}, mode: {"inline"}, multipart: {FALSE},
            items: UpTo(2, Small \union Big)]
Albums == [route: {"artifacts", "instagram"}, mode: Modes, multipart: {TRUE},
           items: UNION {[1..k -> {[kind |-> "image", large |-> FALSE]}] : k \in 4..7}]

SomePlans == SingleItem \union Mixed \union Unsplit \union Albums
=============================================================================
