--------------------------- MODULE MCConfigSystem ----------------------------
(* Lists of two satellites and one request or more of each kind: with      *)
(* every list full, with a value missing, without a name, with a tail,     *)
(* with numbers of more than a byte; passwords of every kind of text.      *)
EXTENDS ConfigSystem

One(name, value) == << [name |-> name, value |-> value] >>

List(name, values) == [i \in DOMAIN values |-> [name |-> name, value |-> values[i]]]

WithTail(config, params, tail) == [config |-> config, params |-> params, tail |-> tail]

Req(config, params) == WithTail(config, params, << >>)

Net(client) == One("clientbool", client) \o One("ip", 10) \o One("port", 11)

Data(type, times) == Net(0) \o One("com", 2) \o One("datatype", type) \o List("datatime", times)

MCRequests ==
  { Req("satset", List("sys", << 1, 0, 258, 256, 257 >>) \o List("gpsprn", << 1, 2 >>)
                  \o List("gloprn", << 0, 1 >>) \o List("bdsprn", << 2, 0 >>)
                  \o List("sbasprn", << 1, 1 >>)),
    Req("satset", List("gpsprn", << 1, 2 >>) \o List("sys", << 0, 0, 0, 0 >>)
                  \o List("sbasprn", << 0 >>) \o List("gloprn", << 1, 1 >>)
                  \o List("bdsprn", << 2, 2 >>)),
    Req("channelset", List("closefre", << 1, 0, 2, 1, 0, 0, 2, 1 >>)
                      \o One("channel", 5) \o One("chsta", 2)),
    Req("channelset", List("closefre", << 0, 0, 0, 0, 0, 0, 2 >>)
                      \o One("channel", 5) \o One("chsta", 0)),
    Req("channelset", One("channel", 5)),
    WithTail("satset", List("gpsprn", << 2 >>) \o List("gloprn", << 0, 2 >>)
                       \o List("bdsprn", << 1, 0 >>) \o List("sbasprn", << 1, 1 >>)
                       \o List("sys", << 0, 1, 2 >>), List("sys", << 1 >>)),
    WithTail("channelset", One("channel", 5) \o One("chsta", 1)
                           \o List("closefre", << 0, 2, 1, 0, 2 >>),
             List("closefre", << 2, 1 >>)),
    WithTail("antnset", List("com", << 1, 2 >>), List("com", << 2 >>)),
    Req("antnset", List("com", << 257, 2, 1 >>)),
    Req("antnset", List("com", << 1 >>)),
    Req("ioset", Data(0, << 1, 0, 5, -1 >>)),
    WithTail("ioset", Data(0, << 1, 0, 5, -1 >>), List("datatime", << 5, -1 >>)),
    Req("ioset", One("ip", 10) \o List("datatime", << 1, 0, 5, -1 >>)),
    Req("ioset", Data(1, << 1, 0, 1, 0, -1, 0, 5 >>)),
    Req("ioset", Data(2, << 1, 0, 1, 0, -1, 0, 5, 0, 1 >>)),
    Req("ioset", Data(3, << 1, 0, 1, 0, -1, 0, 5, 0, 1, 1 >>)),
    Req("setrov", << >>),
    Req("setbasepos", One("lat", 1) \o One("lon", 2) \o One("hgt", 3)),
    Req("setbasepos", One("lat", 1) \o One("lon", 2)),
    Req("engineset", One("eng", 2)),
    Req("eleset", One("ele", 10)),
    Req("netset", One("ip", 1) \o One("gateway", 2) \o One("netmask", 3) \o One("dns", 4)),
    Req("guideserial", One("port", 1) \o One("baud", 2) \o One("databit", 8) \o One("check", 0)
                       \o One("stop", 1)),
    Req("guidenet", Net(1)), Req("guidenet", Net(256)),
    Req("output", One("rtkout", 1) \o One("com", 2)),
    Req("dirsyset", One("type", 1)),
    Req("rebootset", One("type", 1)),
    Req("unknown", << >>) }

(* Both kinds of antenna, with and without a baseline. *)
MCDirections ==
  { Req("dirset", One("type", type) \o One("baseline", baseline)) : type \in {0, 1}, baseline \in {0, 3} }

(* Every kind of text as the account and as the password. *)
Password(account, password) ==
  Req("setpassword", One("account", account) \o One("password", password))

MCPasswords ==
  { Password("p1", "p1"), Password("p1", "p2"), Password("c", "p1"), Password("p2", "c"),
    Password("u", "p2"), Password("p2", "u"), Req("setpassword", One("account", "p1")) }

MCAll == MCRequests \cup MCDirections \cup MCPasswords

MCJunk == {-1, 0, 1, 7}
==============================================================================
