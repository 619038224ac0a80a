--------------------------- MODULE MCAddrClassifier ---------------------------
EXTENDS FlowExpr, TLC

\* ndFlow's TUNNEL_* enum in declaration order: TUNNEL_NONE, TUNNEL_GTP.
MCTunnelCode == [t \in Tunnels |-> IF t = "none" THEN 0 ELSE 1]

MCAppTags == ("games" :> 1) @@ ("ads" :> 2)
MCProtoTags == ("web" :> 1)

Lower == [ip |-> "a1", port |-> 1, mac |-> "m1"]
Upper == [ip |-> "a2", port |-> 2, mac |-> "m2"]

\* A classified TLS flow the lower endpoint opened, and a flow the upper
\* endpoint opened whose detection found nothing (every category unknown).
Detected ==
    [lower |-> Lower, upper |-> Upper, origin |-> "lower",
     ip_protocol |-> 1, vlan_id |-> 0, ip_nat |-> FALSE, guessed |-> FALSE,
     det_updated |-> TRUE, app |-> 1, app_name |-> <<"netify", "google">>,
     cat |-> [application |-> 1, domain |-> 2, network |-> 0, protocol |-> 1],
     risks |-> {1}, score |-> 1, score_client |-> 0, score_server |-> 1,
     proto |-> 1, proto_name |-> "TLS", host |-> "www.google.com",
     ct_mark |-> 0, ssl_version |-> 1, ssl_cipher |-> 2]

Undetected ==
    [lower |-> Lower, upper |-> Upper, origin |-> "upper",
     ip_protocol |-> 1, vlan_id |-> 0, ip_nat |-> FALSE, guessed |-> TRUE,
     det_updated |-> FALSE, app |-> 0, app_name |-> <<>>,
     cat |-> [application |-> 0, domain |-> 0, network |-> 0, protocol |-> 0],
     risks |-> {}, score |-> 0, score_client |-> 0, score_server |-> 0,
     proto |-> 0, proto_name |-> "", host |-> "",
     ct_mark |-> 0, ssl_version |-> 0, ssl_cipher |-> 0]

MCFlows == {Detected, Undetected}

Leaf(f, c, v) == [f |-> f, c |-> c, v |-> v]

\* The regex rx:'google' as the lexer's text, and the hosts it matches.
Google == [text |-> <<"r", "x", ":", "g">>, hosts |-> {"www.google.com"}]

\* One predicate of every rule family, both comparisons where the grammar
\* has two, and the two connectives.
MCAllExprs ==
    {Leaf("ip_proto", "ge", 1), Leaf("ip_version", "eq", 4),
     Leaf("ip_nat", "not", FALSE), Leaf("vlan_id", "bare", 0),
     Leaf("other_type", "eq", "remote"), Leaf("other_type", "ne", "local"),
     Leaf("local_mac", "eq", "m1"), Leaf("other_mac", "ne", "m1"),
     Leaf("local_ip", "eq", {"a1"}), Leaf("other_ip", "ne", {"a1", "a2"}),
     Leaf("local_port", "lt", 2), Leaf("other_port", "gt", 1),
     Leaf("tunnel_type", "bare", "none"),
     Leaf("tunnel_type", "eq", "none"), Leaf("tunnel_type", "ne", "gtp"),
     Leaf("detection_guessed", "eq", TRUE),
     Leaf("detection_updated", "ne", FALSE),
     Leaf("app", "eq", 1), Leaf("app_name", "eq", <<"google">>),
     Leaf("app_name", "ne", <<"netify", "google">>),
     Leaf("category", "eq", "games"), Leaf("category", "ne", "games"),
     Leaf("category", "eq", "social"),
     Leaf("risks", "eq", 1), Leaf("risks", "ne", 2),
     Leaf("ndpi_risk_score", "le", 1), Leaf("ndpi_risk_score_client", "not", 0),
     Leaf("ndpi_risk_score_server", "eq", 1),
     Leaf("app_category", "eq", "games"), Leaf("domain_category", "ne", "ads"),
     Leaf("network_category", "eq", "social"),
     Leaf("proto", "bare", 0), Leaf("proto_name", "ne", "TLS"),
     Leaf("proto_category", "eq", "web"), Leaf("proto_category", "eq", "mail"),
     Leaf("detected_hostname", "eq", "www.google.com"),
     Leaf("detected_hostname_rx", "eq", Google),
     Leaf("detected_hostname_rx", "ne", Google),
     Leaf("fwmark", "not", 0), Leaf("ssl_version", "eq", 1),
     Leaf("ssl_cipher", "ge", 2), Leaf("origin", "eq", "local"),
     [op |-> "or", l |-> Leaf("app", "eq", 1), r |-> Leaf("proto", "eq", 1)],
     [op |-> "and", l |-> Leaf("origin", "ne", "unknown"),
                    r |-> Leaf("local_port", "eq", 1)]}

\* The predicates on the flow's sides, for the run about Parse's view.
MCSideExprs ==
    {Leaf("local_port", "eq", 1), Leaf("other_ip", "eq", {"a2"}),
     Leaf("origin", "eq", "local"),
     [op |-> "and", l |-> Leaf("local_mac", "eq", "m1"),
                    r |-> Leaf("detected_hostname_rx", "eq", Google)]}

====
