----------------------------- MODULE MCJpegDecoder -----------------------------
(***************************************************************************)
(* libjpeg's decompressor on small files: either an application makes any  *)
(* of the calls libjpeg.txt allows while the data trickles in, or          *)
(* the native view plays pictures that ImageProc.c has whole.              *)
(***************************************************************************)
EXTENDS MjpegViewNative

-----------------------------------------------------------------------------
(* Files. *)

SOI == [t |-> "SOI"]
EOI == [t |-> "EOI"]
MCU == [t |-> "MCU"]
COM == [t |-> "COM"]
JPG == [t |-> "JPG"]
DQT(slot, version) == [t |-> "DQT", slot |-> slot, version |-> version]
DHT(version) == [t |-> "DHT", slot |-> 0, version |-> version]
SOF(kind, height, comps) == [t |-> "SOF", kind |-> kind, height |-> height, comps |-> comps]
RefiningSOS(comps, Ss, Se, Ah, Al) ==
  [t |-> "SOS", comps |-> comps, th |-> 0, Ss |-> Ss, Se |-> Se, Ah |-> Ah, Al |-> Al]
SOS(comps, Ss, Se) == RefiningSOS(comps, Ss, Se, 0, 0)

Component(h, v, tq) == [h |-> h, v |-> v, tq |-> tq]
Gray == <<Component(1, 1, 0)>>
Two == <<Component(1, 2, 0), Component(1, 1, 1)>>
Color(v) == <<Component(2, v, 0), Component(1, 1, 1), Component(1, 1, 1)>>

Tables == <<DQT(0, 1), DQT(1, 1), DHT(1)>>
Headed(marker) == <<SOI>> \o Tables \o <<marker>>

\* One scan of three components; of one component, after a datastream of tables.
Baseline(v) == Headed(SOF("SOF0", 17, Color(v))) \o <<COM, SOS(<<1, 2, 3>>, 0, 63), MCU, MCU, MCU, EOI>>
Abbreviated == <<SOI>> \o Tables \o <<EOI, SOI, SOF("SOF1", 3, Gray), SOS(<<1>>, 0, 0), MCU, MCU, MCU, EOI>>

\* A scan per component, with tables redefined in between.
Separate == Headed(SOF("SOF0", 17, Two))
              \o <<SOS(<<1>>, 0, 63), MCU, MCU, MCU, DQT(0, 2), DQT(1, 2), SOS(<<2>>, 0, 63), MCU, MCU, EOI>>

\* Progressive scans: DC, then the other coefficients of each component.
Progressive == Headed(SOF("SOF2", 17, Two))
                 \o <<SOS(<<1, 2>>, 0, 0), MCU, MCU, DQT(0, 2), SOS(<<1>>, 1, 63), MCU, MCU, MCU,
                      SOS(<<2>>, 1, 63), MCU, MCU, EOI>>

\* Progressive scans of three components, whose colours may be quantized in two passes.
ColorProgressive == Headed(SOF("SOF2", 17, Color(1)))
                      \o <<SOS(<<1, 2, 3>>, 0, 0), MCU, MCU, MCU, DQT(0, 2), SOS(<<1>>, 1, 63), MCU, MCU, MCU, EOI>>

\* Blocks of four samples, by a pseudo marker; a scan cut short, and one that is too long.
Damaged == Headed(SOF("SOF2", 5, Two))
             \o <<SOS(<<>>, 0, 3), SOS(<<1, 2>>, 0, 0), MCU, MCU, SOS(<<>>, 0, 3), SOS(<<1>>, 1, 3), MCU,
                  SOS(<<2>>, 1, 3), MCU, MCU, MCU, EOI>>

\* A scan that refines the one before.
Refined == Headed(SOF("SOF2", 3, Gray))
             \o <<RefiningSOS(<<1>>, 0, 0, 0, 1), MCU, RefiningSOS(<<1>>, 0, 0, 1, 0), MCU, EOI>>

\* Files that end in an error.
Faulty ==
  {<<MCU>>, <<SOI, SOI>>, <<SOI, JPG>>, <<SOI, SOS(<<1>>, 0, 63)>>,
   Headed(SOF("SOF0", 3, Gray)) \o <<SOF("SOF0", 3, Gray)>>,
   Headed(SOF("SOF0", 3, Gray)) \o <<EOI>>,
   Headed(SOF("SOF0", 3, Gray)) \o <<SOS(<<>>, 0, 63)>>,
   Headed(SOF("SOF0", 3, Gray)) \o <<SOS(<<2>>, 0, 63)>>,
   Headed(SOF("SOF1", 3, Gray)) \o <<SOS(<<1>>, 0, 20)>>,
   Headed(SOF("SOF0", 3, Gray)) \o <<SOS(<<1>>, 0, 63), MCU, SOS(<<1>>, 0, 63)>>,
   Headed(SOF("SOF2", 3, Two)) \o <<SOS(<<1, 2>>, 0, 0), MCU, SOS(<<1, 2>>, 1, 63)>>,
   Headed(SOF("SOF2", 3, Gray)) \o <<RefiningSOS(<<1>>, 0, 0, 0, 1), MCU, RefiningSOS(<<1>>, 1, 5, 2, 2)>>,
   Headed(SOF("SOF0", 3, <<Component(3, 1, 0), Component(2, 1, 1)>>)) \o <<SOS(<<1, 2>>, 0, 63)>>,
   Headed(SOF("SOF0", 3, <<Component(4, 3, 0), Component(1, 1, 1)>>)) \o <<SOS(<<1, 2>>, 0, 63)>>,
   <<SOI, DHT(1), SOF("SOF0", 3, Gray), SOS(<<1>>, 0, 63)>>,
   <<SOI, DQT(0, 1), SOF("SOF0", 3, Gray), SOS(<<1>>, 0, 63)>>}

MCStreams == {Baseline(1), Baseline(2), Abbreviated, Separate, Progressive, ColorProgressive, Damaged, Refined} \cup Faulty

-----------------------------------------------------------------------------
(* Parameters. *)

Scaled(num) == [default_decompress_parms EXCEPT !.scale_num = num, !.scale_denom = 8]
Quantized(s) == [s EXCEPT !.quantize_colors = TRUE]
Buffered(s) == [s EXCEPT !.buffered_image = TRUE]

MCSettings ==
  {Scaled(2),
   [Scaled(5) EXCEPT !.do_fancy_upsampling = FALSE],
   Quantized(Scaled(1)),
   Quantized([Scaled(2) EXCEPT !.two_pass_quantize = FALSE]),
   [Scaled(2) EXCEPT !.raw_data_out = TRUE],
   Quantized([Scaled(1) EXCEPT !.raw_data_out = TRUE]),
   Buffered(Scaled(1)), Buffered([Scaled(8) EXCEPT !.raw_data_out = TRUE]),
   Buffered([Scaled(1) EXCEPT !.do_block_smoothing = FALSE]),
   Buffered(Quantized([Scaled(1) EXCEPT !.enable_quant = {"1pass"}]))}

\* Strips of three lines, the last of them two lines of the picture, and colours chosen in two passes.
TallStreams ==
  {Headed(SOF("SOF0", 5, <<Component(1, 3, 0), Component(1, 1, 1), Component(1, 1, 1)>>))
     \o <<SOS(<<1, 2, 3>>, 0, 63), MCU, EOI>>}
TallSettings == {Quantized(Scaled(8))}
NoFeeds == {}

\* A scan per component, of which the application may ask for the second while the first comes in.
ColorsLaterStreams == {Separate}
ColorsLaterSettings == {Buffered(Scaled(1))}

-----------------------------------------------------------------------------
(* Feeds: pictures of one size, of which some cannot be decoded. *)

Picture(data) == Headed(SOF("SOF0", 2, Color(1))) \o <<SOS(<<1, 2, 3>>, 0, 63)>> \o data
ProgressivePicture(rest) == Headed(SOF("SOF2", 2, Color(1))) \o <<SOS(<<1, 2, 3>>, 0, 0), MCU>> \o rest
Whole == Picture(<<MCU, EOI>>)

Pictures ==
  {Whole,
   Picture(<<MCU>>),                                        \* its end is missing
   Picture(<<>>), Picture(<<EOI>>),                         \* its data is missing
   Picture(<<MCU, JPG, EOI>>),                              \* an error after the data
   Headed(SOF("SOF0", 2, Gray)) \o <<SOS(<<1>>, 0, 63), MCU, EOI>>, \* no colours
   <<SOI, JPG, EOI>>, <<SOI>>,                              \* an error in the header, half a header
   <<SOI>> \o Tables \o <<EOI>>,                            \* no picture
   <<SOI, SOF("SOF0", 2, Color(1)), SOS(<<1, 2, 3>>, 0, 63), MCU, EOI>>, \* no quantization table
   ProgressivePicture(<<SOS(<<1>>, 1, 63), MCU, EOI>>),     \* several scans
   ProgressivePicture(<<>>)}                                \* some of them

\* A picture that is not of the size of the bitmap.
Larger == Headed(SOF("SOF0", 3, Color(1))) \o <<SOS(<<1, 2, 3>>, 0, 63), MCU, EOI>>

MCFeeds == {<<Whole, p>> : p \in Pictures} \cup {<<p, Whole>> : p \in Pictures} \cup {<<Larger>>}

-----------------------------------------------------------------------------

\* An application without a view.
LibraryInit == Init /\ at = "off" /\ ImageInit(<<>>) /\ ViewInit

MCInit == LibraryInit \/ NativeInit

Decompressing == at = "off" /\ Next /\ UNCHANGED <<imageVars, viewVars>>

Viewing == at # "off" /\ ViewNext

MCNext == Decompressing \/ Viewing

MCSpec ==
  /\ MCInit
  /\ [][MCNext]_nativeVars
  /\ WF_nativeVars(at = "off" /\ LibraryStep(FALSE) /\ UNCHANGED <<imageVars, viewVars>>)
  /\ NativeFairness
=============================================================================
