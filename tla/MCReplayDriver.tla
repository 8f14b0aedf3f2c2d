--------------------------- MODULE MCReplayDriver ---------------------------
EXTENDS ReplayDriver

Req == [write |-> FALSE, allowed |-> FALSE, omitted |-> FALSE, expired |-> FALSE,
        uses |-> {}, carries |-> {}, produces |-> << >>, own |-> << >>, payload |-> "full"]
Token(name, v)  == [kind |-> "auth_token", name |-> name, value |-> v]
Cookie(name, v) == [kind |-> "cookie", name |-> name, value |-> v]
Id(v)           == [kind |-> "resource_id", name |-> "id", value |-> v]
Bearer(v)       == {[kind |-> "auth_token", value |-> v]}
Session(v)      == {[kind |-> "cookie", value |-> v]}

Login(p) == [Req EXCEPT !.write = TRUE, !.allowed = TRUE, !.produces = p]

\* Login, an order, its retrieval with a rotated token.
Shop == << Login(<<Token("access_token", "t1"), Token("refresh_token", "r1")>>),
           [Req EXCEPT !.write = TRUE, !.uses = Bearer("t1"), !.produces = <<Id("order7")>>],
           [Req EXCEPT !.uses = Bearer("r1"), !.produces = <<Token("access_token", "t2")>>],
           [Req EXCEPT !.uses = Bearer("t2"), !.carries = {"order7"}] >>
\* A session cookie set by a read, an omitted body, an expired foreign token.
Visit == << [Req EXCEPT !.produces = <<Cookie("sid", "s1")>>],
            [Req EXCEPT !.uses = Session("s1"), !.carries = {"s1"}],
            [Req EXCEPT !.write = TRUE, !.allowed = TRUE, !.omitted = TRUE, !.uses = Session("s1")],
            [Req EXCEPT !.uses = Bearer("t9"), !.expired = TRUE] >>
\* Older captures: no response body, or no response at all.
Old  == << [Login(<<Token("token", "t1"), Cookie("sid", "s1")>>) EXCEPT !.payload = "headers"],
           [Req EXCEPT !.uses = Bearer("t1") \cup Session("s1")] >>
Bare == << [Login(<<Token("token", "t1")>>) EXCEPT !.payload = "none"],
           [Req EXCEPT !.uses = Bearer("t1")], [Req EXCEPT !.uses = Bearer("t9")] >>
\* No response was captured: an older log, whose event holds the response, and a
\* newer one, whose request has a token in its own body.
Legacy  == << [Login(<<Token("token", "t1")>>) EXCEPT !.payload = "none", !.own = <<Token("token", "t1")>>],
              [Req EXCEPT !.uses = Bearer("t1")] >>
Refresh == << [Login(<<Token("refresh_token", "t2")>>) EXCEPT !.payload = "none",
                 !.carries = {"r1"}, !.own = <<Token("refresh_token", "r1")>>],
              [Req EXCEPT !.uses = Bearer("r1")] >>
\* The values a request uses are those of its own response.
Late == << [Req EXCEPT !.uses = Bearer("t1"), !.produces = <<Token("token", "t1")>>],
           [Req EXCEPT !.uses = Bearer("t1")] >>
\* Two orders, whose identifiers count up.
Orders == << [Req EXCEPT !.produces = <<Id("n1")>>], [Req EXCEPT !.produces = <<Id("n2")>>],
             [Req EXCEPT !.carries = {"n1", "n2"}] >>
\* Two cookies in one response.
Jar == << [Req EXCEPT !.produces = <<Cookie("sid", "s1"), Cookie("csrf", "c1")>>],
          [Req EXCEPT !.uses = Session("s1") \cup Session("c1")] >>

MCScripts == {Shop, Visit, Old, Bare, Legacy, Refresh, Late, Orders, Jar}

\* A cookie or a token that was not in the captured response.
MCExtras  == {{}, {Cookie("ad", "x")}, {Token("jwt", "j")}}
NoExtras  == {{}}

MCLive == [v \in {"t1", "t2", "t9", "r1", "s1", "c1", "order7", "n1", "n2"} |->
             CASE v = "t1" -> "t1'" [] v = "t2" -> "t2'" [] v = "r1" -> "r1'"
               [] v = "s1" -> "s1'" [] v = "c1" -> "c1'" [] v = "order7" -> "order8"
               [] v = "n1" -> "n2"  [] v = "n2" -> "n3" [] OTHER -> v]
MCInside == {<<"n1", "order7">>}
Counting == {Orders}
NoSeed   == << >>
TokenSeed == [v \in {"t1"} |-> "t2'"]
MCSeeds  == {NoSeed, TokenSeed}
NoSeeds  == {NoSeed}
=============================================================================
