----------------------------- MODULE MCConnection -----------------------------
(* Instances of Connection for TLC.                                          *)
EXTENDS Connection

Request(size, coding, then) == [size |-> size, coding |-> coding, then |-> then]

Get == Request(0, "length", "open")
Post == Request(2, "length", "open")
LastPost == Request(1, "length", "close")
Chunked == Request(1, "chunked", "open")
Upgrade == Request(0, "upgrade", "open")

\* Every request after every other, and two ways to three.
MCPlans == {<<a, b>> : a \in {Get, Post, LastPost, Chunked},
                       b \in {Get, Post, LastPost, Chunked, Upgrade}}
           \cup {<<Post, Get, Upgrade>>, <<Get, Chunked, Post>>}

\* Two requests with bodies, and no other trouble.
MCPosts == {<<Post, Post>>}
===============================================================================
