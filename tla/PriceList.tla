------------------------------- MODULE PriceList -------------------------------
(***************************************************************************)
(* The embedded price list, as far as a search by name can tell its items  *)
(* apart: the compute items, in the order of the file, and those of other  *)
(* services whose names hold the words the search looks for. A price is in *)
(* ten-thousandths of a dollar, the first of its price tiers. A name is    *)
(* the sequence of its words from the product on; what stands before, such *)
(* as "Oracle Cloud Infrastructure - Compute", is no part of any key.      *)
(***************************************************************************)
EXTENDS Naturals, Sequences

OcpuPerHour         == "OCPU Per Hour"
GpuPerHour          == "GPU Per Hour"
GigabytePerHour     == "Gigabyte Per Hour"
NodePerHour         == "Node Per Hour"
NVMeTerabytePerHour == "NVMe Terabyte Per Hour"

\* cores is the number at the end of the last but one part of the name, 1 if
\* there is none.
Item(category, name, metric, price) ==
  [category |-> category, name |-> name, metric |-> metric, price |-> price, cores |-> 1]

VM(name, price)  == Item("Compute - Virtual Machine", name, OcpuPerHour, price)
BM(name, price)  == Item("Compute - Bare Metal", name, OcpuPerHour, price)
GPU(name, price) == Item("Compute - GPU", name, GpuPerHour, price)
Other(category, name, price) == Item(category, name, "another metric", price)

\* A node of the VMware solution with its number of cores and its commitment.
VMware(shape, cores, term, metric, price) ==
  [Item("Compute - VMware", shape \o <<"-", term>>, metric, price) EXCEPT !.cores = cores]

Standard(g) == <<"Standard", "-", g>>
DenseIO(g)  == <<"Dense I/O", "-", g>>
Gpu(g)      == <<"GPU", "-", g>>

OcpuAndMemory(product, ocpu, memory) ==
  <<VM(product \o <<"OCPU">>, ocpu),
    [VM(product \o <<"Memory">>, memory) EXCEPT !.metric = GigabytePerHour]>>

WithNVMe(product, ocpu, memory, nvme) ==
  OcpuAndMemory(product, ocpu, memory)
    \o <<[VM(product \o <<"NVMe">>, nvme) EXCEPT !.metric = NVMeTerabytePerHour]>>

\* A shape of the VMware solution under each of its terms.
Terms(shape, cores, metric, terms, prices) ==
  [i \in DOMAIN terms |-> VMware(shape, cores, terms[i], metric, prices[i])]

HourlyYears   == <<"Hourly Commit", "1 Year Commit", "3 Year Commit">>
MonthlyYears  == <<"Monthly Commit", "1 Year Commit", "3 Year Commit">>
FourTerms     == <<"Hourly Commit", "Monthly Commit", "1 Year Commit", "3 Year Commit">>
FourTermsE4   == <<"Hourly Commit", "Monthly Commit", "1 year Commit", "3 year Commit">>

-----------------------------------------------------------------------------
(* The blocks of the file.                                                 *)

VMwareGpuA10 == Terms(<<"GPU", ".", "A10">>, 64, NodePerHour, MonthlyYears, <<160000, 130000, 110000>>)
VMwareE5     == Terms(<<"Standard", ".", "E5">>, 48, NodePerHour, HourlyYears, <<166617, 131604, 106119>>)
RovingEdge   == <<Other("Roving Edge Infrastructure", <<"RED.2", "GPU">>, 1000000)>>
GpuL40S      == <<GPU(Gpu("L40S"), 35000), GPU(Gpu("MI300X"), 60000)>>
ArmA2A4      == OcpuAndMemory(Standard("A2"), 140, 20) \o OcpuAndMemory(Standard("A4"), 138, 27)
GpuH200      == <<GPU(Gpu("H200"), 100000)>>
VMwareDenseE5 ==
  Terms(<<"DenseIO", ".", "E5">>, 32, NodePerHour, FourTerms, <<102379, 85310, 68242, 60720>>)
    \o <<VMware(<<"Expansion">>, 1, "Monthly Commit", OcpuPerHour, 1338)>>
GpuB200 ==
  <<Other("Compute Cloud@Customer", <<"GPU", ".", "L40S">>, 35000),
    GPU(Gpu("B200"), 140000), GPU(Gpu("GB200"), 160000)>>
StackMonitoring == <<Other("Stack Monitoring - GPU", <<"GPU", "Infrastructure">>, 700)>>
StandardE6   == OcpuAndMemory(Standard("E6"), 300, 20)
StandardX5   == <<BM(Standard("X5"), 638), VM(Standard("X5"), 638),
                  Other("Compute - OS Images", <<"Windows OS">>, 920)>>
GenerationX7 ==
  <<BM(Standard("X7"), 638), VM(Standard("X7"), 638), BM(DenseIO("X7"), 1275), VM(DenseIO("X7"), 1275),
    GPU(<<"GPU">> \o Standard("X7"), 12750), GPU(<<"GPU">> \o Standard("X7"), 12750)>>
Integration  == <<Other("Application Integration - OIC", Standard("BYOL"), 3226)>>
GpuV2        == <<GPU(<<"GPU">> \o Standard("V2"), 29500)>>
HpcAndE2     == <<BM(Standard("HPC") \o <<"-", "X7">>, 750), VM(Standard("E2"), 300)>>
StandardB1   == <<BM(Standard("B1"), 638), VM(Standard("B1"), 638)>>
BigData      == <<Other("Data Management - Big Data Cloud Service", <<"Dense I/O">>, 2140), Other("Data Management - Big Data Cloud Service", <<"HPC">>, 1536)>>
E2Micro      == <<VM(Standard("E2") \o <<"Micro", "-", "Free">>, 0)>>
StandardE3   == OcpuAndMemory(Standard("E3"), 250, 15)
VMwareDense2Month == Terms(<<"DenseIO2">>, 52, OcpuPerHour, <<"1 Month Commit">>, <<2031>>)
GpuE3        == <<GPU(Gpu("E3"), 30500)>>
GenerationE4 == OcpuAndMemory(Standard("E4"), 250, 15) \o WithNVMe(DenseIO("E4"), 250, 15, 612)
VMwareDense2 == Terms(<<"DenseIO2">>, 52, OcpuPerHour, HourlyYears, <<2437, 1625, 1320>>)
ArmA1        == OcpuAndMemory(Standard("A1"), 0, 0)
OptimizedX9  == OcpuAndMemory(<<"Optimized", "-", "X9">>, 540, 15)
VMwareHCX    == Terms(<<"HCX Enterprise">>, 1, OcpuPerHour, <<"Monthly">>, <<126>>)
StandardX9   == OcpuAndMemory(Standard("X9"), 400, 15)
VMwareE4x64  == Terms(<<"DenseIO", ".", "E4">>, 64, OcpuPerHour, FourTermsE4, <<2437, 2031, 1625, 1320>>)
VMwareE4x32  == Terms(<<"DenseIO", ".", "E4">>, 32, OcpuPerHour, FourTermsE4, <<3047, 2539, 2031, 1650>>)
VMwareE4x128 == Terms(<<"DenseIO", ".", "E4">>, 128, OcpuPerHour, FourTermsE4, <<1950, 1625, 1300, 1056>>)
GpuA100A10   == <<GPU(Gpu("A100") \o <<"-", "v2">>, 40000), GPU(Gpu("A10"), 20000)>>
CloudAtCustomer ==
  <<Other("Compute Cloud@Customer", Standard("E5"), 300),
    Other("Compute Cloud@Customer", Standard("E5") \o <<"-", "Memory">>, 20),
    Other("Compute Cloud@Customer", <<"Block Volume Storage">>, 425),
    Other("Compute Cloud@Customer", <<"Block Volume Storage">>, 595),
    Other("Compute Cloud@Customer", <<"File Storage">>, 3000),
    Other("Compute Cloud@Customer", <<"Object Storage">>, 255),
    Other("Compute Cloud@Customer", <<"Load Balancer">>, 113)>>
HpcE5        == <<BM(<<"HPC", "-", "E5">>, 440)>>
VMwareBase ==
  Terms(<<"Standard2">>, 12, NodePerHour, HourlyYears, <<47140, 37144, 29530>>)
    \o Terms(<<"Standard3">>, 16, NodePerHour, HourlyYears, <<55540, 42943, 33522>>)
VMwareBaseE4 ==
  Terms(<<"Standard", ".", "E4">>, 32, NodePerHour, HourlyYears, <<92565, 69223, 52233>>)
    \o Terms(<<"Expansion">>, 1, OcpuPerHour, HourlyYears, <<1605, 1092, 739>>)
StandardE5   == OcpuAndMemory(Standard("E5"), 300, 20)
DenseE5      == WithNVMe(DenseIO("E5"), 300, 20, 612)
GpuH100      == <<GPU(Gpu("H100"), 100000)>>

\* Transcoding is sold in a "Standard" edition by codec, size and frame rate.
MediaFlow(codec, prices) ==
  [i \in DOMAIN prices |-> Other("Media Services - Media Flow", Standard(codec), prices[i])]
MediaFlowH264 == MediaFlow("H264", <<10, 20, 30, 30, 40, 100, 150, 180, 360>>)
MediaFlowVP8  == MediaFlow("VP8", <<30, 40, 70, 80, 100, 150, 360, 400, 500>>)
MediaFlowH265 == MediaFlow("H265VP9", <<50, 70, 120, 100, 200, 300, 260, 500, 630>>)

DefaultPrice ==
  VMwareGpuA10 \o VMwareE5 \o GpuL40S \o RovingEdge \o ArmA2A4 \o GpuH200 \o VMwareDenseE5 \o GpuB200
    \o StackMonitoring \o StandardE6 \o StandardX5 \o GenerationX7 \o Integration \o GpuV2 \o HpcAndE2
    \o StandardB1 \o BigData \o E2Micro \o StandardE3 \o VMwareDense2Month \o GpuE3 \o GenerationE4
    \o VMwareDense2 \o ArmA1 \o OptimizedX9 \o VMwareHCX \o StandardX9 \o VMwareE4x64
    \o MediaFlowH264 \o MediaFlowVP8 \o MediaFlowH265 \o VMwareE4x32 \o VMwareE4x128
    \o GpuA100A10 \o CloudAtCustomer \o HpcE5 \o VMwareBase \o VMwareBaseE4
    \o StandardE5 \o DenseE5 \o GpuH100
=============================================================================
